---- MODULE Spec2Model ----
(***************************************************************************)
(* The instance cache (instanceCache), the instance resolver               *)
(* (VCloudInstances.GetInstanceInfo, isInstanceShutdown) and the retrying  *)
(* request client (VCloudProvider.Request) of the vcloud cloud provider,   *)
(* with the three node operations of VCloudInstances and getProviderID.    *)
(*                                                                         *)
(* Time.  The code reads the clock in two places only: time.Now() when an  *)
(* entry is stored and time.Since(entry.timestamp) in isExpired.  The      *)
(* model therefore keeps, for every cache entry, its age                   *)
(* (now - entry.timestamp) in seconds; Tick lets time pass and adds to     *)
(* every age.  An age stops growing MaxOver seconds past the TTL it is     *)
(* compared with: isExpired cannot tell two such ages apart.               *)
(*                                                                         *)
(* Each goroutine also keeps lag, the time since the last HTTP attempt of  *)
(* its call, up to the call's return.  lag is not a variable of the code;  *)
(* it only measures how old the data a call returns is.                    *)
(***************************************************************************)
EXTENDS Integers, Sequences, FiniteSets, TLC

\* ---------------------------------------------------------------- bounds
MaxEvents == 4
MaxOver == 1
MaxIDLen == 7
MaxNodes == 2
MaxPorts == 2

\* ------------------------------------------------------ program constants
maxRetries == 3
instanceCacheTTL == 30
nonExistentCacheTTL == 5
cacheSizeLimit == 100

\* A Go string is the sequence of its characters; NoId is "".
NoId == << >>
\* the goroutines calling the cache, and the instance IDs they ask for
Procs == {1, 2}
Ids == {<<"a">>, <<"b">>}
\* an instance ID that makes the request URL one url.Parse rejects
BadIds == {<<"%">>}
\* the instance IDs the resolver is exercised with
ResolveIds == {<<"a">>} \cup BadIds
\* the amounts of time one Tick lets pass
TickSteps == {nonExistentCacheTTL, instanceCacheTTL}

Min(a, b) == IF a < b THEN a ELSE b

\* ------------------------------------------------------------ the remote
\* Instance, as decoded from data.instance of a 200 response: the fields
\* GetInstanceInfo reads to decide Exists and Shutdown.  decodes tells
\* whether json.Decode accepts the body; a nil pointer is NilInstance.
PowerStates ==
    {"POWERED_ON", "POWERED_OFF", "SUSPENDED", "TERMINATED", "BACKUP",
     "BACKUP_POWEROFF", "RUNNING", "PENDING", "UNKNOWN", "powered_off", ""}
InstanceStatuses == {"active", "terminated", "TERMINATED", ""}
\* Flavor and ClusterID are Metadata.Flavor and Metadata.Cluster.ID, here
\* those of the instances whose labels are not looked at
Instance(status, state) ==
    [decodes |-> TRUE, Status |-> status, State |-> state,
     Flavor |-> <<"m">>, ClusterID |-> <<"c">>]
AllInstances == {Instance(st, s) : st \in InstanceStatuses, s \in PowerStates}
MainInstances == {Instance("active", "POWERED_ON")}
Malformed ==
    [decodes |-> FALSE, Status |-> "", State |-> "", Flavor |-> << >>, ClusterID |-> << >>]
NilInstance ==
    [decodes |-> FALSE, Status |-> "nil", State |-> "nil",
     Flavor |-> << >>, ClusterID |-> << >>]

StatusCodes == {200, 201, 403, 404, 500, 503}
MainStatusCodes == {200, 404, 500}

\* What one httpClient.Do can give: a transport error, or a response with a
\* status and, for a 200, a body.
Responses(codes, instances) ==
    [kind : {"resp"}, status : codes \ {200}, body : {Malformed}]
    \cup [kind : {"resp"}, status : codes \cap {200}, body : instances \cup {Malformed}]
TransportError == [kind |-> "err", status |-> 0, body |-> NilInstance]
\* the error of Request when http.NewRequestWithContext fails: an error like
\* TransportError for the caller, told apart here by status -1
CreateError == [kind |-> "err", status |-> 0 - 1, body |-> NilInstance]
NoResp == [kind |-> "none", status |-> 0, body |-> NilInstance]
MainOutcomes == Responses(MainStatusCodes, MainInstances) \cup {TransportError}
AllOutcomes == Responses(StatusCodes, AllInstances) \cup {TransportError}

\* -------------------------------------------------------------- resolver
shutdownStates ==
    [s \in {"POWERED_OFF", "SUSPENDED", "TERMINATED", "BACKUP", "BACKUP_POWEROFF"}
        |-> TRUE]

isInstanceShutdownMissingBackup(state) ==
    IF state \in DOMAIN shutdownStates \ {"BACKUP"} THEN shutdownStates[state] ELSE FALSE

\* A Go map lookup: the stored value for a key of the map, the zero value
\* (false) for any other string.
isInstanceShutdown(state) ==
    IF state \in DOMAIN shutdownStates THEN shutdownStates[state] ELSE FALSE

\* metadata.AdditionalLabels: the values of the labels
\* k8s.io.infra.vnetwork.dev/instance-type and .../cluster-id
NoLabels == [instanceType |-> << >>, clusterID |-> << >>]
AdditionalLabels(instance) ==
    [instanceType |-> instance.Flavor, clusterID |-> instance.ClusterID]

\* *InstanceInfo.  NoInfo is the nil pointer; ProviderID "" is a nil Metadata.
NoInfo ==
    [isNil |-> TRUE, Exists |-> FALSE, Shutdown |-> FALSE, ProviderID |-> NoId,
     Labels |-> NoLabels, RawInstance |-> NilInstance]
AbsentInfo ==
    [isNil |-> FALSE, Exists |-> FALSE, Shutdown |-> FALSE, ProviderID |-> NoId,
     Labels |-> NoLabels, RawInstance |-> NilInstance]
LiveInfo(instanceID, instance) ==
    [isNil |-> FALSE, Exists |-> TRUE, Shutdown |-> isInstanceShutdown(instance.State),
     ProviderID |-> instanceID, Labels |-> AdditionalLabels(instance),
     RawInstance |-> instance]

\* error values; NoErr is the nil error
NoErr == [msg |-> "", code |-> 0]
ErrRequest == [msg |-> "failed to get instance: transport error", code |-> 0]
ErrDecode == [msg |-> "failed to decode response", code |-> 0]
ErrStatus(code) == [msg |-> "unexpected status code", code |-> code]

GetInstanceInfoNo404(instanceID, r) ==
    IF r.kind = "err" THEN [info |-> NoInfo, err |-> ErrRequest]
    ELSE IF r.status # 200 THEN [info |-> NoInfo, err |-> ErrStatus(r.status)]
    ELSE IF ~r.body.decodes THEN [info |-> NoInfo, err |-> ErrDecode]
    ELSE IF r.body.Status = "terminated" THEN [info |-> AbsentInfo, err |-> NoErr]
    ELSE [info |-> LiveInfo(instanceID, r.body), err |-> NoErr]

GetInstanceInfoAccepts201(instanceID, r) ==
    IF r.kind = "err" THEN [info |-> NoInfo, err |-> ErrRequest]
    ELSE IF r.status = 404 THEN [info |-> AbsentInfo, err |-> NoErr]
    ELSE IF r.status \notin {200, 201} THEN [info |-> NoInfo, err |-> ErrStatus(r.status)]
    ELSE IF ~r.body.decodes THEN [info |-> AbsentInfo, err |-> NoErr]
    ELSE IF r.body.Status = "terminated" THEN [info |-> AbsentInfo, err |-> NoErr]
    ELSE [info |-> LiveInfo(instanceID, r.body), err |-> NoErr]

\* GetInstanceInfo once Request has returned r (a response, or the transport
\* error of the last attempt).
GetInstanceInfo(instanceID, r) ==
    IF r.kind = "err" THEN [info |-> NoInfo, err |-> ErrRequest]
    ELSE IF r.status = 404 THEN [info |-> AbsentInfo, err |-> NoErr]
    ELSE IF r.status # 200 THEN [info |-> NoInfo, err |-> ErrStatus(r.status)]
    ELSE IF ~r.body.decodes THEN [info |-> NoInfo, err |-> ErrDecode]
    ELSE IF r.body.Status = "terminated" THEN [info |-> AbsentInfo, err |-> NoErr]
    ELSE [info |-> LiveInfo(instanceID, r.body), err |-> NoErr]

\* ------------------------------------------------------------------ nodes
\* the characters provider IDs are made of, and the strings of at most n
Chars == {"v", ":", "/"}
Strings(n) == UNION {[1..k -> Chars] : k \in 0..n}
Sep == <<":", "/", "/">>

\* strings.Index(s, "://") + 1: where the first "://" of s starts, 0 when
\* s has none
Index(s) ==
    LET at == {i \in 1..(Len(s) - 2) : SubSeq(s, i, i + 2) = Sep}
    IN  IF at = {} THEN 0 ELSE CHOOSE i \in at : \A j \in at : i <= j

\* strings.Split(s, "://"): the pieces of s between its "://", left to right
RECURSIVE Split(_)
Split(s) ==
    LET i == Index(s)
    IN  IF i = 0 THEN <<s>>
        ELSE <<SubSeq(s, 1, i - 1)>> \o Split(SubSeq(s, i + 3, Len(s)))

\* *v1.Node: the two fields getProviderID reads
Node(providerID, name) == [ProviderID |-> providerID, Name |-> name]
NoNode == Node(NoId, NoId)
Names == {NoId, <<"n">>}
AllNodes == {Node(providerID, name) : providerID \in Strings(MaxIDLen), name \in Names}
\* the nodes the three operations are called with: a provider ID with a
\* scheme, one without, a name only, nothing at all, a scheme only
Nodes ==
    {Node(<<"v", ":", "/", "/", "a">>, NoId),
     Node(<<"b">>, <<"n">>),
     Node(NoId, <<"a">>),
     Node(NoId, NoId),
     Node(<<"v", ":", "/", "/">>, <<"n">>)}

\* getProviderID
getProviderID(node) ==
    IF node.ProviderID # NoId
    THEN LET parts == Split(node.ProviderID)
         IN  IF Len(parts) = 2 THEN parts[2] ELSE node.ProviderID
    ELSE node.Name

\* what InstanceExists, InstanceShutdown and InstanceMetadata return: the
\* flag or the metadata (its ProviderID), and the error
NoRes == [flag |-> FALSE, meta |-> NoId, err |-> NoErr]
ErrEmptyID == [msg |-> "provider ID is empty for node", code |-> 0]
InstanceNotFound == [msg |-> "instance not found", code |-> 0]
Apis == {"InstanceExists", "InstanceShutdown", "InstanceMetadata"}

\* InstanceExists reporting an absent instance as InstanceNotFound
OpResultExistsNotFound(api, info, err) ==
    IF err # NoErr THEN [flag |-> FALSE, meta |-> NoId, err |-> err]
    ELSE IF ~info.Exists
    THEN [flag |-> FALSE, meta |-> NoId, err |-> InstanceNotFound]
    ELSE IF api = "InstanceShutdown"
    THEN [flag |-> info.Shutdown, meta |-> NoId, err |-> NoErr]
    ELSE IF api = "InstanceMetadata"
    THEN [flag |-> FALSE, meta |-> info.ProviderID, err |-> NoErr]
    ELSE [flag |-> info.Exists, meta |-> NoId, err |-> NoErr]

\* the three operations once i.cache.get has returned info, err
OpResult(api, info, err) ==
    IF err # NoErr THEN [flag |-> FALSE, meta |-> NoId, err |-> err]
    ELSE IF api = "InstanceExists"
    THEN [flag |-> info.Exists, meta |-> NoId, err |-> NoErr]
    ELSE IF ~info.Exists
    THEN [flag |-> FALSE, meta |-> NoId, err |-> InstanceNotFound]
    ELSE IF api = "InstanceShutdown"
    THEN [flag |-> info.Shutdown, meta |-> NoId, err |-> NoErr]
    ELSE [flag |-> FALSE, meta |-> info.ProviderID, err |-> NoErr]

\* ----------------------------------------------------------------- state
VARIABLES
    cache,       \* c.cache: instance ID -> cacheEntry [info, age, ttl]
    writer,      \* c.mu: the goroutine holding Lock, 0 when none
    readers,     \* c.mu: the goroutines holding RLock
    g,           \* the goroutines: for each, where it stands and its locals
    mine,        \* the entry each goroutine's last storing get wrote, what
                 \* happened to it since (over: another store replaced it),
                 \* and whether its record had been fetched before an
                 \* invalidate of its ID returned (pre)
    invalidated, \* per ID: the state invalidate found, until the next store
    events       \* calls started and Ticks taken so far

vars == <<cache, writer, readers, g, mine, invalidated, events>>

NoEntry == [exists |-> FALSE, info |-> NoInfo, age |-> 0, ttl |-> 0]
NoMine ==
    [set |-> FALSE, id |-> NoId, data |-> NoInfo, age |-> 0, ttl |-> 0, over |-> FALSE,
     pre |-> FALSE]

\* NewVCloudProvider: no reader, no provider, no error
NoConfig == [kind |-> "none", text |-> << >>]
NoProvider ==
    [isNil |-> TRUE, clusterName |-> << >>, clusterID |-> << >>,
     mgmtURL |-> << >>, providerToken |-> << >>]
NoCfgErr == [wrap |-> "", msg |-> ""]

\* the load balancer: no service, no nodes, no request
NoLB ==
    [service |-> [Name |-> "", Namespace |-> "", Type |-> "", Ports |-> << >>],
     nodes |-> << >>,
     req |-> [isNil |-> TRUE, Name |-> "", Ports |-> << >>, Nodes |-> << >>,
              Namespace |-> "", Type |-> ""],
     prev |-> 0]

\* Request and its callers: nothing asked, nothing sent, nothing received
\*   caller    the function that calls Request
\*   method, path, hasBody, body  Request's arguments
\*   mgmtURL, clusterID  the provider's fields
\*   url       the local url
\*   pos       how far the caller's body reader has been read
\*   sent      per attempt, the URL requested and the body bytes transmitted
\*   got       per response received, its status and how many times its body
\*             has been closed, by whom
\*   resp, err what Request returns: the place in got of the response, 0
\*             for nil; the error, "" for nil
NoRq ==
    [caller |-> "", method |-> "", path |-> << >>, hasBody |-> FALSE, body |-> << >>,
     mgmtURL |-> << >>, clusterID |-> << >>, url |-> << >>, pos |-> 0,
     sent |-> << >>, got |-> << >>, resp |-> 0, err |-> ""]

\* A goroutine between calls.
\*   pc        where it stands
\*   op        the method it is in: "get", "invalidate", "clear", "none"
\*   arg       the instanceID argument
\*   entry     get: the locals entry, exists, with the age isExpired saw
\*   i         Request: the loop index
\*   sleepLeft Request: what is left of the time.Sleep in progress
\*   resp      Request: what it returned (the response, or the error)
\*   info, err get: the locals info, err
\*   rinfo, rerr  what the call returned
\*   nreq      HTTP attempts made by this call
\*   tried     their outcomes, in order: [kind, status]
\*   slept     the durations of the backoff sleeps of this call, in order
\*   cancelled the call's context is cancelled
\*   cancelAt  where the call stood when that happened, "no" before
\*   cAttempts, cSleeps  HTTP attempts and sleeps begun after that
\*   lag       time since the last of them
\*   afterInv  get: invalidated[arg] when the call read the map
\*   api       the operation of VCloudInstances that makes the call, "none"
\*             for a call of the cache itself
\*   node      its node argument
\*   res       what it returned
\*   config    NewVCloudProvider: its argument
\*   provider, perr  what it returned
\*   lb        the load balancer calls: the service and nodes arguments and
\*             the request of buildLoadBalancerRequest; for
\*             EnsureLoadBalancerDeleted, the status that ended the call before
\*   rq        Request called by one of its callers: see NoRq
\*   preInv    get: an invalidate of arg has returned since the fetch of this
\*             call returned
Idle ==
    [pc |-> "idle", op |-> "none", arg |-> NoId, entry |-> NoEntry, i |-> 0,
     sleepLeft |-> 0, resp |-> NoResp, info |-> NoInfo, err |-> NoErr,
     rinfo |-> NoInfo, rerr |-> NoErr, nreq |-> 0,
     lag |-> 0, afterInv |-> "no",
     api |-> "none", node |-> NoNode, res |-> NoRes,
     tried |-> << >>, slept |-> << >>,
     cancelled |-> FALSE, cancelAt |-> "no", cAttempts |-> 0, cSleeps |-> 0,
     config |-> NoConfig, provider |-> NoProvider, perr |-> NoCfgErr,
     lb |-> NoLB, rq |-> NoRq, preInv |-> FALSE]

\* isExpired with >= for >
isExpiredAtTTL(e) == e.age >= e.ttl

\* isExpired: time.Since(entry.timestamp) > entry.ttl
isExpired(e) == e.age > e.ttl

\* the TTL classes the wrong way round
cacheTTLSwapped(info) == IF ~info.Exists THEN instanceCacheTTL ELSE nonExistentCacheTTL

\* get: ttl := instanceCacheTTL; if !info.Exists { ttl = nonExistentCacheTTL }
cacheTTL(info) == IF ~info.Exists THEN nonExistentCacheTTL ELSE instanceCacheTTL

\* a sweep that empties the map
cleanupEverything(c) == [id \in {} |-> c[id]]

\* cleanupOldEntriesLocked: delete every expired entry
cleanupOldEntriesLocked(c) ==
    [id \in {k \in DOMAIN c : ~isExpired(c[k])} |-> c[id]]

\* a store that leaves an entry already in the map as it is
PutIfAbsent(c, id, e) == [k \in DOMAIN c \cup {id} |-> IF k \in DOMAIN c THEN c[k] ELSE e]

\* a store that updates the record of an entry already in the map and keeps
\* its timestamp and ttl
PutKeepsTimestamp(c, id, e) ==
    [k \in DOMAIN c \cup {id} |->
        IF k # id THEN c[k]
        ELSE IF id \in DOMAIN c THEN [c[id] EXCEPT !.info = e.info] ELSE e]

\* c.cache[instanceID] = &cacheEntry{...}
Put(c, id, e) == [k \in DOMAIN c \cup {id} |-> IF k = id THEN e ELSE c[k]]

\* delete that leaves the map as it is
DeleteNothing(c, id) == c

\* delete that removes the entry only when it has expired
DeleteOnlyExpired(c, id) ==
    [k \in {j \in DOMAIN c : j # id \/ ~isExpired(c[j])} |-> c[k]]

\* delete(c.cache, instanceID)
Delete(c, id) == [k \in DOMAIN c \ {id} |-> c[k]]

EmptyCache == [k \in {} |-> [info |-> NoInfo, age |-> 0, ttl |-> 0]]

Init ==
    /\ cache = EmptyCache
    /\ writer = 0
    /\ readers = {}
    /\ g = [p \in Procs |-> Idle]
    /\ mine = [p \in Procs |-> NoMine]
    /\ invalidated = [k \in Ids |-> "no"]
    /\ events = 0

\* -------------------------------------------------------------------- time
\* an age d seconds later, as far as a comparison with ttl can tell
AgeBy(a, d, ttl) == Min(a + d, ttl + MaxOver)
AgeEntry(e, d) == [e EXCEPT !.age = AgeBy(@, d, e.ttl)]

\* d seconds pass: every entry of the map, every entry a goroutine is about
\* to test, every fetched record and every sleep is d seconds further on
TimePasses(d) ==
    /\ cache' = [k \in DOMAIN cache |-> AgeEntry(cache[k], d)]
    /\ g' = [p \in Procs |->
            [g[p] EXCEPT
                !.entry = IF @.exists /\ g[p].pc = "runlock" THEN AgeEntry(@, d) ELSE @,
                !.lag = IF g[p].pc \in {"lock", "store"}
                        THEN AgeBy(@, d, cacheTTL(g[p].info)) ELSE @,
                !.sleepLeft = IF @ > d THEN @ - d ELSE 0]]
    /\ mine' = [p \in Procs |->
            IF mine[p].set THEN [mine[p] EXCEPT !.age = AgeBy(@, d, mine[p].ttl)]
            ELSE mine[p]]
    /\ UNCHANGED <<writer, readers, invalidated>>

\* time passes, as one of the events the model counts
Tick(d) ==
    /\ events < MaxEvents
    /\ events' = events + 1
    /\ TimePasses(d)

\* ---------------------------------------------------------- instanceCache
\* a goroutine free to start a call
CanCall(p) ==
    /\ \/ g[p].pc \in {"idle", "returned"}
       \/ g[p].pc = "done" /\ g[p].api = "none"
    /\ events < MaxEvents

\* get: c.mu.RLock(); entry, exists := c.cache[instanceID], in a goroutine
\* whose locals are s
GetBegin(p, id, s) ==
    /\ writer = 0
    /\ readers' = readers \cup {p}
    /\ g' = [g EXCEPT ![p] = [s EXCEPT
            !.pc = "runlock", !.op = "get", !.arg = id,
            !.entry = IF id \in DOMAIN cache
                      THEN [exists |-> TRUE, info |-> cache[id].info,
                            age |-> cache[id].age, ttl |-> cache[id].ttl]
                      ELSE NoEntry,
            !.afterInv = IF id \in DOMAIN invalidated THEN invalidated[id] ELSE "no"]]
    /\ UNCHANGED <<cache, writer, mine, invalidated>>

\* get(ctx, id) is called: c.mu.RLock(); entry, exists := c.cache[instanceID]
GetRLock(p, id) ==
    /\ CanCall(p)
    /\ events' = events + 1
    /\ GetBegin(p, id, Idle)

\* a get that keeps the read lock while it fetches: RUnlock only on a hit
GetCheckKeepsRLock(p) ==
    /\ g[p].pc = "runlock"
    /\ readers' = IF g[p].entry.exists /\ ~isExpired(g[p].entry)
                  THEN readers \ {p} ELSE readers
    /\ g' = [g EXCEPT ![p] =
            IF g[p].entry.exists /\ ~isExpired(g[p].entry)
            THEN [@ EXCEPT !.pc = "done", !.rinfo = g[p].entry.info, !.rerr = NoErr]
            ELSE [@ EXCEPT !.pc = "attempt"]]
    /\ UNCHANGED <<cache, writer, mine, invalidated, events>>

\* get with the expiry test left out: whatever the map held is served
GetCheckServesStale(p) ==
    /\ g[p].pc = "runlock"
    /\ readers' = readers \ {p}
    /\ g' = [g EXCEPT ![p] =
            IF g[p].entry.exists
            THEN [@ EXCEPT !.pc = "done", !.rinfo = g[p].entry.info, !.rerr = NoErr]
            ELSE [@ EXCEPT !.pc = "attempt"]]
    /\ UNCHANGED <<cache, writer, mine, invalidated, events>>

\* get: c.mu.RUnlock(); if exists && !c.isExpired(entry) { return entry.info,
\* nil }; otherwise on to GetInstanceInfo, which enters Request's loop
GetCheck(p) ==
    /\ g[p].pc = "runlock"
    /\ readers' = readers \ {p}
    /\ g' = [g EXCEPT ![p] =
            IF g[p].entry.exists /\ ~isExpired(g[p].entry)
            THEN [@ EXCEPT !.pc = "done", !.rinfo = g[p].entry.info, !.rerr = NoErr]
            ELSE [@ EXCEPT !.pc = "attempt"]]
    /\ UNCHANGED <<cache, writer, mine, invalidated, events>>

\* get on a resolver error, serving the expired entry it had found
GetErrCheckFallsBack(s, r) ==
    IF r.err # NoErr
    THEN IF s.entry.exists
         THEN [s EXCEPT !.pc = "done", !.info = r.info, !.err = r.err,
                        !.rinfo = s.entry.info, !.rerr = NoErr]
         ELSE [s EXCEPT !.pc = "done", !.info = r.info, !.err = r.err,
                        !.rinfo = NoInfo, !.rerr = r.err]
    ELSE [s EXCEPT !.pc = "lock", !.info = r.info, !.err = r.err]

\* get on a resolver error, caching the failure as an absent instance
GetErrCheckCachesFailure(s, r) ==
    IF r.err # NoErr
    THEN [s EXCEPT !.pc = "lock", !.info = AbsentInfo, !.err = r.err]
    ELSE [s EXCEPT !.pc = "lock", !.info = r.info, !.err = r.err]

\* get: info, err := instances.GetInstanceInfo(...); if err != nil { return
\* nil, err }.  s is the goroutine, r the resolver's return.
GetErrCheck(s, r) ==
    IF r.err # NoErr
    THEN [s EXCEPT !.pc = "done", !.info = r.info, !.err = r.err,
                   !.rinfo = NoInfo, !.rerr = r.err]
    ELSE [s EXCEPT !.pc = "lock", !.info = r.info, !.err = r.err]

\* ------------------------------------------------- VCloudProvider.Request
ErrDelete == [msg |-> "failed to delete load balancer", code |-> 0]

\* EnsureLoadBalancerDeleted for which a 404 is an error
EnsureLoadBalancerDeleted404Fails(r) ==
    IF r.kind = "err" THEN ErrDelete
    ELSE IF r.status # 200 THEN ErrStatus(r.status)
    ELSE NoErr

\* EnsureLoadBalancerDeleted once Request has returned r: the error it
\* returns
EnsureLoadBalancerDeleted(r) ==
    IF r.kind = "err" THEN ErrDelete
    ELSE IF r.status = 404 THEN NoErr
    ELSE IF r.status # 200 THEN ErrStatus(r.status)
    ELSE NoErr

\* Request returns r to its caller: EnsureLoadBalancerDeleted returns its
\* error; GetInstanceInfo decodes r and get tests the error
Returned(s, r) ==
    IF s.op = "EnsureLoadBalancerDeleted"
    THEN [s EXCEPT !.pc = "returned", !.resp = r, !.rerr = EnsureLoadBalancerDeleted(r)]
    ELSE GetErrCheck([s EXCEPT !.resp = r], GetInstanceInfo(s.arg, r))

\* a backoff of one second whatever the attempt
BackoffConstant(s) ==
    [s EXCEPT !.pc = "sleep", !.sleepLeft = 1, !.slept = Append(@, 1),
              !.cSleeps = IF s.cancelled THEN @ + 1 ELSE @]

\* Request: time.Sleep(time.Duration(i+1) * time.Second); continue
Backoff(s) ==
    [s EXCEPT !.pc = "sleep", !.sleepLeft = s.i + 1, !.slept = Append(@, s.i + 1),
              !.cSleeps = IF s.cancelled THEN @ + 1 ELSE @]

\* Request that retries a status >= 400
RequestStepRetries4xx(s, out) ==
    IF out.kind = "err"
    THEN IF s.i < maxRetries - 1 THEN Backoff(s) ELSE Returned(s, TransportError)
    ELSE IF out.status >= 400 /\ s.i < maxRetries - 1
         THEN Backoff(s) ELSE Returned(s, out)

\* Request that returns, when the attempts are used up, what the first
\* attempt gave
RequestStepKeepsFirst(s, out) ==
    IF (out.kind = "err" \/ out.status >= 500) /\ s.i < maxRetries - 1
    THEN Backoff(s)
    ELSE IF s.i = maxRetries - 1 /\ (out.kind = "err" \/ out.status >= 500)
    THEN Returned(s, IF s.tried[1].kind = "err" THEN TransportError
                     ELSE [kind |-> "resp", status |-> s.tried[1].status,
                           body |-> Malformed])
    ELSE Returned(s, out)

\* One pass of Request's loop body for the outcome out of httpClient.Do: a
\* transport error, or a status >= 500, with attempts left sleeps and
\* continues; anything else ends the call, and GetInstanceInfo and get go on
\* with what Request returned.
RequestStep(s, out) ==
    IF out.kind = "err"
    THEN IF s.i < maxRetries - 1 THEN Backoff(s) ELSE Returned(s, TransportError)
    ELSE IF out.status >= 500 /\ s.i < maxRetries - 1
         THEN Backoff(s) ELSE Returned(s, out)

\* http.NewRequestWithContext fails for this instance ID
Unbuildable(id) == \E k \in 1..Len(id) : id[k] = "%"

\* a pass of Request's loop after which a get that fails empties the map
ReqAttemptFromClearsOnError(p, outs) ==
    /\ g[p].pc = "attempt"
    /\ IF Unbuildable(g[p].arg)
       THEN g' = [g EXCEPT ![p] = Returned(@, CreateError)]
       ELSE \E out \in (IF g[p].cancelled THEN {TransportError} ELSE outs) :
              g' = [g EXCEPT ![p] = RequestStep(
                      [@ EXCEPT !.nreq = @ + 1, !.lag = 0,
                                !.tried = Append(@, [kind |-> out.kind, status |-> out.status]),
                                !.cAttempts = IF g[p].cancelled THEN @ + 1 ELSE @],
                      out)]
    /\ cache' = IF g'[p].pc = "done" /\ g'[p].rerr # NoErr THEN EmptyCache ELSE cache
    /\ UNCHANGED <<writer, readers, mine, invalidated, events>>

\* One pass of Request's loop for the call in progress: the request is
\* built, or Request returns the error; httpClient.Do gives an outcome among
\* outs, the transport error when the context is cancelled.
ReqAttemptFrom(p, outs) ==
    /\ g[p].pc = "attempt"
    /\ IF Unbuildable(g[p].arg)
       THEN g' = [g EXCEPT ![p] = Returned(@, CreateError)]
       ELSE \E out \in (IF g[p].cancelled THEN {TransportError} ELSE outs) :
              g' = [g EXCEPT ![p] = RequestStep(
                      [@ EXCEPT !.nreq = @ + 1, !.lag = 0,
                                !.tried = Append(@, [kind |-> out.kind, status |-> out.status]),
                                !.cAttempts = IF g[p].cancelled THEN @ + 1 ELSE @],
                      out)]
    /\ UNCHANGED <<cache, writer, readers, mine, invalidated, events>>

ReqAttempt(p) == ReqAttemptFrom(p, MainOutcomes)
ReqAttemptAny(p) == ReqAttemptFrom(p, AllOutcomes)

\* Request: time.Sleep returns; the loop's i++
ReqWake(p) ==
    /\ g[p].pc = "sleep"
    /\ g[p].sleepLeft = 0
    /\ g' = [g EXCEPT ![p] = [@ EXCEPT !.pc = "attempt", !.i = @ + 1]]
    /\ UNCHANGED <<cache, writer, readers, mine, invalidated, events>>

\* ---------------------------------------------------- instanceCache, go on
\* a Lock that does not wait for the readers to leave
GetLockIgnoresReaders(p) ==
    /\ g[p].pc = "lock"
    /\ writer = 0
    /\ writer' = p
    /\ g' = [g EXCEPT ![p] = [@ EXCEPT !.pc = "store"]]
    /\ UNCHANGED <<cache, readers, mine, invalidated, events>>

\* get: c.mu.Lock()
GetLock(p) ==
    /\ g[p].pc = "lock"
    /\ writer = 0
    /\ readers = {}
    /\ writer' = p
    /\ g' = [g EXCEPT ![p] = [@ EXCEPT !.pc = "store"]]
    /\ UNCHANGED <<cache, readers, mine, invalidated, events>>

\* a get that, holding the write lock, looks at the map again and returns
\* the fresh entry another goroutine has stored meanwhile instead of storing
GetStoreDoubleChecked(p) ==
    /\ g[p].pc = "store"
    /\ LET id == g[p].arg
           e == [info |-> g[p].info, age |-> 0, ttl |-> cacheTTL(g[p].info)]
           hit == id \in DOMAIN cache /\ ~isExpired(cache[id])
       IN  /\ cache' = IF hit THEN cache ELSE Put(cache, id, e)
           /\ mine' = IF hit THEN mine
                      ELSE [q \in Procs |->
                              IF q = p
                              THEN [set |-> TRUE, id |-> id, data |-> e.info,
                                    age |-> 0, ttl |-> e.ttl, over |-> FALSE,
                                    pre |-> g[p].preInv]
                              ELSE IF mine[q].set /\ mine[q].id = id
                              THEN [mine[q] EXCEPT !.over = TRUE]
                              ELSE mine[q]]
           /\ invalidated' = IF hit THEN invalidated
                             ELSE [k \in DOMAIN invalidated |->
                                     IF k = id THEN "no" ELSE invalidated[k]]
           /\ g' = [g EXCEPT ![p] = [@ EXCEPT
                    !.pc = "done", !.rerr = NoErr,
                    !.rinfo = IF hit THEN cache[id].info ELSE g[p].info]]
    /\ writer' = 0
    /\ UNCHANGED <<readers, events>>

\* get: c.cache[instanceID] = &cacheEntry{info, time.Now(), ttl}; the sweep
\* when the map has grown past the limit; c.mu.Unlock(); return info, nil
GetStore(p) ==
    /\ g[p].pc = "store"
    /\ LET id == g[p].arg
           e == [info |-> g[p].info, age |-> 0, ttl |-> cacheTTL(g[p].info)]
           stored == Put(cache, id, e)
       IN  /\ cache' = IF Cardinality(DOMAIN stored) > cacheSizeLimit
                       THEN cleanupOldEntriesLocked(stored)
                       ELSE stored
           /\ mine' = [q \in Procs |->
                  IF q = p
                  THEN [set |-> TRUE, id |-> id, data |-> e.info,
                        age |-> 0, ttl |-> e.ttl, over |-> FALSE, pre |-> g[p].preInv]
                  ELSE IF mine[q].set /\ mine[q].id = id
                  THEN [mine[q] EXCEPT !.over = TRUE]
                  ELSE mine[q]]
           /\ invalidated' = [k \in DOMAIN invalidated |->
                                   IF k = id THEN "no" ELSE invalidated[k]]
    /\ writer' = 0
    /\ g' = [g EXCEPT ![p] = [@ EXCEPT !.pc = "done", !.rinfo = g[p].info, !.rerr = NoErr]]
    /\ UNCHANGED <<readers, events>>

\* invalidate(id) is called: c.mu.Lock()
InvalidateLock(p, id) ==
    /\ CanCall(p)
    /\ writer = 0
    /\ readers = {}
    /\ events' = events + 1
    /\ writer' = p
    /\ g' = [g EXCEPT ![p] = [Idle EXCEPT !.pc = "idelete", !.op = "invalidate", !.arg = id]]
    /\ UNCHANGED <<cache, readers, mine, invalidated>>

\* the state of the entry of id: "absent", "fresh" or "stale"
EntryState(id) ==
    IF id \notin DOMAIN cache THEN "absent"
    ELSE IF cache[id].age <= cache[id].ttl THEN "fresh" ELSE "stale"

\* invalidate: delete(c.cache, instanceID); the deferred c.mu.Unlock()
InvalidateDelete(p) ==
    /\ g[p].pc = "idelete"
    /\ cache' = Delete(cache, g[p].arg)
    /\ writer' = 0
    /\ invalidated' = [invalidated EXCEPT ![g[p].arg] = EntryState(g[p].arg)]
    /\ mine' = [q \in Procs |-> IF mine[q].id = g[p].arg THEN NoMine ELSE mine[q]]
    /\ g' = [q \in Procs |->
            IF q = p THEN [g[p] EXCEPT !.pc = "done"]
            ELSE IF g[q].op = "get" /\ g[q].pc = "lock" /\ g[q].arg = g[p].arg
            THEN [g[q] EXCEPT !.preInv = TRUE]
            ELSE g[q]]
    /\ UNCHANGED <<readers, events>>

\* clear() is called: c.mu.Lock()
ClearLock(p) ==
    /\ CanCall(p)
    /\ writer = 0
    /\ readers = {}
    /\ events' = events + 1
    /\ writer' = p
    /\ g' = [g EXCEPT ![p] = [Idle EXCEPT !.pc = "cmake", !.op = "clear"]]
    /\ UNCHANGED <<cache, readers, mine, invalidated>>

\* a clear that returns without the deferred c.mu.Unlock()
ClearMakeKeepsLock(p) ==
    /\ g[p].pc = "cmake"
    /\ cache' = EmptyCache
    /\ invalidated' = [k \in Ids |-> "no"]
    /\ mine' = [q \in Procs |-> NoMine]
    /\ g' = [g EXCEPT ![p] = [@ EXCEPT !.pc = "done"]]
    /\ UNCHANGED <<writer, readers, events>>

\* clear: c.cache = make(map[string]*cacheEntry); the deferred c.mu.Unlock()
ClearMake(p) ==
    /\ g[p].pc = "cmake"
    /\ cache' = EmptyCache
    /\ writer' = 0
    /\ invalidated' = [k \in Ids |-> "no"]
    /\ mine' = [q \in Procs |-> NoMine]
    /\ g' = [g EXCEPT ![p] = [@ EXCEPT !.pc = "done"]]
    /\ UNCHANGED <<readers, events>>

\* the context of the call in progress is cancelled, or its deadline passes
Cancel(p) ==
    /\ g[p].pc \in {"guard", "runlock", "attempt", "sleep", "lock", "store"}
    /\ ~g[p].cancelled
    /\ events < MaxEvents
    /\ events' = events + 1
    /\ g' = [g EXCEPT ![p] = [@ EXCEPT !.cancelled = TRUE, !.cancelAt = g[p].pc]]
    /\ UNCHANGED <<cache, writer, readers, mine, invalidated>>

\* -------------------------------------------------------- VCloudInstances
\* InstanceExists, InstanceShutdown or InstanceMetadata is called with node:
\* providerID := i.getProviderID(node)
OpCall(p, api, node) ==
    /\ CanCall(p)
    /\ events' = events + 1
    /\ g' = [g EXCEPT ![p] = [Idle EXCEPT
            !.pc = "guard", !.api = api, !.node = node,
            !.arg = getProviderID(node)]]
    /\ UNCHANGED <<cache, writer, readers, mine, invalidated>>

\* the operations without the test for an empty provider ID
OpGuardNoTest(p) ==
    /\ g[p].pc = "guard"
    /\ GetBegin(p, g[p].arg, g[p])
    /\ UNCHANGED events

\* if providerID == "" { return ..., fmt.Errorf(...) }; info, err :=
\* i.cache.get(ctx, providerID)
OpGuard(p) ==
    /\ g[p].pc = "guard"
    /\ IF g[p].arg = NoId
       THEN /\ g' = [g EXCEPT ![p] = [@ EXCEPT
                    !.pc = "returned",
                    !.res = [flag |-> FALSE, meta |-> NoId, err |-> ErrEmptyID]]]
            /\ UNCHANGED <<cache, writer, readers, mine, invalidated>>
       ELSE GetBegin(p, g[p].arg, g[p])
    /\ UNCHANGED events

\* i.cache.get has returned: the operation's own return
OpReturn(p) ==
    /\ g[p].pc = "done"
    /\ g[p].api # "none"
    /\ g' = [g EXCEPT ![p] = [@ EXCEPT
            !.pc = "returned", !.res = OpResult(g[p].api, g[p].rinfo, g[p].rerr)]]
    /\ UNCHANGED <<cache, writer, readers, mine, invalidated, events>>

\* ------------------------------------------------------------ specification
Next ==
    \/ \E d \in TickSteps : Tick(d)
    \/ \E p \in Procs, id \in Ids : GetRLock(p, id)
    \/ \E p \in Procs : GetCheck(p)
    \/ \E p \in Procs : ReqAttempt(p)
    \/ \E p \in Procs : ReqWake(p)
    \/ \E p \in Procs : GetLock(p)
    \/ \E p \in Procs : GetStore(p)
    \/ \E p \in Procs, id \in Ids : InvalidateLock(p, id)
    \/ \E p \in Procs : InvalidateDelete(p)
    \/ \E p \in Procs : ClearLock(p)
    \/ \E p \in Procs : ClearMake(p)

Spec == Init /\ [][Next]_vars

\* One goroutine calling get, the remote answering with any status and any
\* instance: the resolver over all its inputs.
NextResolve ==
    \/ \E d \in TickSteps : Tick(d)
    \/ \E id \in ResolveIds : GetRLock(1, id)
    \/ GetCheck(1)
    \/ ReqAttemptAny(1)
    \/ ReqWake(1)
    \/ GetLock(1)
    \/ GetStore(1)

SpecResolve == Init /\ [][NextResolve]_vars

\* One goroutine calling get, and its context cancelled at any moment of a
\* call.
NextCancel ==
    \/ \E d \in TickSteps : Tick(d)
    \/ \E id \in Ids : GetRLock(1, id)
    \/ GetCheck(1)
    \/ ReqAttempt(1)
    \/ ReqWake(1)
    \/ GetLock(1)
    \/ GetStore(1)
    \/ Cancel(1)

SpecCancel == Init /\ [][NextCancel]_vars

\* A cache that is full or one short of it.  The k-th instance ID is "i"
\* followed by the three decimal digits of k.
Digits == <<"0", "1", "2", "3", "4", "5", "6", "7", "8", "9">>
SweepId(k) ==
    <<"i", Digits[(k \div 100) + 1], Digits[((k \div 10) % 10) + 1], Digits[(k % 10) + 1]>>
\* the entry get stored for an absent instance, now past its ttl
ExpiredEntry ==
    [info |-> AbsentInfo, age |-> nonExistentCacheTTL + 1, ttl |-> cacheTTL(AbsentInfo)]
\* the entry get has just stored for a running instance
FreshEntry(id) ==
    [info |-> LiveInfo(id, Instance("active", "POWERED_ON")), age |-> 0,
     ttl |-> instanceCacheTTL]
\* n entries, the first x of them expired, the others fresh
FilledCache(n, x) ==
    [id \in {SweepId(k) : k \in 1..n} |->
        IF \E k \in 1..x : id = SweepId(k) THEN ExpiredEntry ELSE FreshEntry(id)]
\* the IDs get is called with: one in the map from the start, the 100th,
\* the 101st
SweepCallIds == {SweepId(1), SweepId(cacheSizeLimit), SweepId(cacheSizeLimit + 1)}

InitSweep ==
    /\ \E n \in {cacheSizeLimit - 1, cacheSizeLimit},
          x \in {0, 2, cacheSizeLimit - 2} :
            cache = FilledCache(n, x)
    /\ writer = 0
    /\ readers = {}
    /\ g = [p \in Procs |-> Idle]
    /\ mine = [p \in Procs |-> NoMine]
    /\ invalidated = [k \in Ids |-> "no"]
    /\ events = 0

NextSweep ==
    \/ \E d \in TickSteps : Tick(d)
    \/ \E id \in SweepCallIds : GetRLock(1, id)
    \/ GetCheck(1)
    \/ ReqAttempt(1)
    \/ ReqWake(1)
    \/ GetLock(1)
    \/ GetStore(1)

SpecSweep == InitSweep /\ [][NextSweep]_vars

\* getProviderID over every node: one goroutine calls an operation with any
\* node and extracts the provider ID.
NextProviderID ==
    /\ g[1].pc = "idle"
    /\ \E node \in AllNodes : OpCall(1, "InstanceExists", node)

SpecProviderID == Init /\ [][NextProviderID]_vars

\* The three operations of VCloudInstances, called one after the other by a
\* goroutine with the nodes of Nodes.
NextNode ==
    \/ \E d \in TickSteps : Tick(d)
    \/ \E api \in Apis, node \in Nodes : OpCall(1, api, node)
    \/ OpGuard(1)
    \/ GetCheck(1)
    \/ ReqAttempt(1)
    \/ ReqWake(1)
    \/ GetLock(1)
    \/ GetStore(1)
    \/ OpReturn(1)

SpecNode == Init /\ [][NextNode]_vars

\* ----------------------------------------------------------------- config.go
\* A string is the sequence of its characters.
Lowers == <<"a", "b", "c", "d", "e", "f", "g", "h", "i", "j", "k", "l", "m", "n", "o", "p", "q", "r", "s", "t", "u", "v", "w", "x", "y", "z">>
Uppers == <<"A", "B", "C", "D", "E", "F", "G", "H", "I", "J", "K", "L", "M", "N", "O", "P", "Q", "R", "S", "T", "U", "V", "W", "X", "Y", "Z">>
IsLetter(c) == \E k \in 1..Len(Lowers) : c = Lowers[k] \/ c = Uppers[k]
IsDigit(c) == \E k \in 1..Len(Digits) : c = Digits[k]
IsHex(c) == IsDigit(c) \/ c \in {"a", "b", "c", "d", "e", "f", "A", "B", "C", "D", "E", "F"}

\* strings.EqualFold, strings.HasPrefix, strings.HasSuffix, strings.TrimSpace
EqualFold(s, t) ==
    LET ToLower(c) ==
            IF \E k \in 1..Len(Uppers) : Uppers[k] = c
            THEN Lowers[CHOOSE k \in 1..Len(Uppers) : Uppers[k] = c] ELSE c
    IN  Len(s) = Len(t) /\ \A k \in 1..Len(s) : ToLower(s[k]) = ToLower(t[k])
HasPrefix(s, t) == Len(s) >= Len(t) /\ SubSeq(s, 1, Len(t)) = t
HasSuffix(s, t) == Len(s) >= Len(t) /\ SubSeq(s, Len(s) - Len(t) + 1, Len(s)) = t
TrimSpace(s) ==
    LET inked == {k \in 1..Len(s) : s[k] \notin {" ", "\t", "\r"}}
    IN  IF inked = {} THEN << >>
        ELSE SubSeq(s, CHOOSE k \in inked : \A j \in inked : k <= j,
                       CHOOSE k \in inked : \A j \in inked : k >= j)

\* the place of the first c in s, 0 when there is none
IndexByte(s, c) ==
    IF \E k \in 1..Len(s) : s[k] = c
    THEN CHOOSE k \in 1..Len(s) : s[k] = c /\ \A j \in 1..(k - 1) : s[j] # c
    ELSE 0

\* bufio.Scanner with the default ScanLines: the lines of the text
RECURSIVE ScanLines(_)
ScanLines(text) ==
    IF text = << >> THEN << >>
    ELSE LET k == IndexByte(text, "\n")
         IN  IF k = 0 THEN <<text>>
             ELSE <<SubSeq(text, 1, k - 1)>> \o ScanLines(SubSeq(text, k + 1, Len(text)))

\* VCloudConfig
VCloudConfig(id, name, url, token) ==
    [ClusterID |-> id, ClusterName |-> name, MgmtURL |-> url, ProviderToken |-> token]

\* readConfig, the body of the loop over the lines: st is cfg and
\* inVCloudSection
readLine(st, raw) ==
    LET line == TrimSpace(raw)
    IN  IF line = << >> \/ HasPrefix(line, <<"#">>) \/ HasPrefix(line, <<";">>)
        THEN st
        ELSE IF HasPrefix(line, <<"[">>) /\ HasSuffix(line, <<"]">>)
        THEN [st EXCEPT !.inVCloudSection =
                EqualFold(TrimSpace(SubSeq(line, 2, Len(line) - 1)), <<"v", "C", "l", "o", "u", "d">>)]
        ELSE IF st.inVCloudSection /\ IndexByte(line, "=") # 0
        THEN LET k == IndexByte(line, "=")
                 key == TrimSpace(SubSeq(line, 1, k - 1))
                 value == TrimSpace(SubSeq(line, k + 1, Len(line)))
             IN  IF key = <<"C", "L", "U", "S", "T", "E", "R", "_", "I", "D">>
                 THEN [st EXCEPT !.cfg.ClusterID = value]
                 ELSE IF key = <<"C", "L", "U", "S", "T", "E", "R", "_", "N", "A", "M", "E">>
                 THEN [st EXCEPT !.cfg.ClusterName = value]
                 ELSE IF key = <<"M", "G", "M", "T", "_", "U", "R", "L">>
                 THEN [st EXCEPT !.cfg.MgmtURL = value]
                 ELSE IF key = <<"P", "R", "O", "V", "I", "D", "E", "R", "_", "T", "O", "K", "E", "N">>
                 THEN [st EXCEPT !.cfg.ProviderToken = value]
                 ELSE st
        ELSE st

RECURSIVE readLines(_, _)
readLines(lines, st) ==
    IF lines = << >> THEN st ELSE readLines(Tail(lines), readLine(st, Head(lines)))

\* readConfig for a reader that can be read: the cfg it returns
readConfig(text) ==
    readLines(ScanLines(text),
              [cfg |-> VCloudConfig(<< >>, << >>, << >>, << >>),
               inVCloudSection |-> FALSE]).cfg

\* uuid.Parse returns no error
uuidParse(s) ==
    LET canonical(t) ==
            /\ t[9] = "-" /\ t[14] = "-" /\ t[19] = "-" /\ t[24] = "-"
            /\ \A k \in (1..36) \ {9, 14, 19, 24} : IsHex(t[k])
    IN  IF Len(s) = 36 THEN canonical(s)
        ELSE IF Len(s) = 36 + 9
        THEN EqualFold(SubSeq(s, 1, 9), <<"u", "r", "n", ":", "u", "u", "i", "d", ":">>) /\ canonical(SubSeq(s, 10, 45))
        ELSE IF Len(s) = 36 + 2
        THEN s[1] = "{" /\ s[38] = "}" /\ canonical(SubSeq(s, 2, 37))
        ELSE IF Len(s) = 32 THEN \A k \in 1..32 : IsHex(s[k])
        ELSE FALSE

\* url.Parse returns no error, for a string of letters, digits and - . : /
\*   getScheme: a colon at the start is an error; letters, and after the
\*     first place digits, + - and ., up to a colon are the scheme;
\*   without a scheme and a leading slash, the first path segment must not
\*     hold a colon;
\*   after //, what follows the last colon of the authority must be a valid
\*     optional port: nothing, or a colon and digits.
urlParse(s) ==
    LET isSchemeChar(k) ==
            IsLetter(s[k]) \/ (k > 1 /\ (IsDigit(s[k]) \/ s[k] \in {"+", "-", "."}))
        stops == {k \in 1..Len(s) : ~isSchemeChar(k)}
        k0 == IF stops = {} THEN 0 ELSE CHOOSE k \in stops : \A j \in stops : k <= j
        colonAt == k0 # 0 /\ s[k0] = ":"
        scheme == IF colonAt THEN SubSeq(s, 1, k0 - 1) ELSE << >>
        rest == IF colonAt THEN SubSeq(s, k0 + 1, Len(s)) ELSE s
        slash == IndexByte(rest, "/")
        segment == IF slash = 0 THEN rest ELSE SubSeq(rest, 1, slash - 1)
        afterSlashes == SubSeq(rest, 3, Len(rest))
        s2 == IndexByte(afterSlashes, "/")
        authority == IF s2 = 0 THEN afterSlashes ELSE SubSeq(afterSlashes, 1, s2 - 1)
        colons == {k \in 1..Len(authority) : authority[k] = ":"}
        port == IF colons = {} THEN << >>
                ELSE SubSeq(authority, CHOOSE k \in colons : \A j \in colons : k >= j,
                            Len(authority))
    IN  /\ ~(colonAt /\ k0 = 1)
        /\ (~HasPrefix(rest, <<"/">>) /\ scheme = << >>) => IndexByte(segment, ":") = 0
        /\ ( /\ HasPrefix(rest, <<"/", "/">>)
             /\ (scheme # << >> \/ ~HasPrefix(rest, <<"/", "/", "/">>)) )
           => \A k \in 2..Len(port) : IsDigit(port[k])

\* validateConfig: the text of the error, "" for nil
validateConfig(cfg) ==
    IF cfg.ClusterID = << >> THEN "CLUSTER_ID is required"
    ELSE IF cfg.ClusterName = << >> THEN "CLUSTER_NAME is required"
    ELSE IF cfg.MgmtURL = << >> THEN "MGMT_URL is required"
    ELSE IF cfg.ProviderToken = << >> THEN "PROVIDER_TOKEN is required"
    ELSE IF ~uuidParse(cfg.ClusterID) THEN "CLUSTER_ID must be a valid UUID"
    ELSE IF ~urlParse(cfg.MgmtURL) THEN "MGMT_URL must be a valid URL"
    ELSE ""

\* NewVCloudProvider(config).  config is the io.Reader: kind "nil" is the nil
\* interface, "nilptr" an interface holding a nil *strings.Reader, whose
\* Read dereferences the nil pointer, "reader" a reader of text.  The error
\* is the prefix NewVCloudProvider puts before the error of readConfig or
\* validateConfig, and that error's own text.
NewVCloudProvider(config) ==
    IF config.kind = "nil"
    THEN [provider |-> NoProvider, panics |-> FALSE,
          err |-> [wrap |-> "failed to read vcloud config",
                   msg |-> "no vcloud config provided"]]
    ELSE IF config.kind = "nilptr"
    THEN [provider |-> NoProvider, panics |-> TRUE, err |-> NoCfgErr]
    ELSE LET cfg == readConfig(config.text)
             msg == validateConfig(cfg)
         IN  IF msg # ""
             THEN [provider |-> NoProvider, panics |-> FALSE,
                   err |-> [wrap |-> "invalid vcloud config", msg |-> msg]]
             ELSE [provider |->
                      [isNil |-> FALSE, clusterName |-> cfg.ClusterName,
                       clusterID |-> cfg.ClusterID, mgmtURL |-> cfg.MgmtURL,
                       providerToken |-> cfg.ProviderToken],
                   panics |-> FALSE, err |-> NoCfgErr]

\* the values of the test's configs
ValidUUID == <<"d", "7", "3", "c", "6", "d", "f", "2", "-", "f", "7", "f", "e", "-", "4", "f", "7", "c", "-", "b", "f", "7", "0", "-", "9", "f", "9", "4", "c", "c", "e", "2", "6", "4", "3", "0">>
NotAURL == <<"n", "o", "t", "-", "a", "-", "u", "r", "l">>

\* the readers tried: the nil interface, the nil pointer, and the texts made
\* of a section header and one line for each key, each possibly missing (an
\* empty line), commented out or with an empty value, the header before the
\* keys or after them
Configs ==
    LET NL == <<"\n">>
        HeaderLines ==
            { <<"[", "v", "C", "l", "o", "u", "d", "]">>, <<" ", " ", "[", " ", "V", "C", "L", "O", "U", "D", " ", "]">>, <<"[", "o", "t", "h", "e", "r", "]">>, <<"#", " ", "[", "v", "C", "l", "o", "u", "d", "]">>, << >> }
        ClusterIDLines ==
            { <<"C", "L", "U", "S", "T", "E", "R", "_", "I", "D", " ", "=", " ">> \o ValidUUID, <<"C", "L", "U", "S", "T", "E", "R", "_", "I", "D", "=", "i", "n", "v", "a", "l", "i", "d", "-", "u", "u", "i", "d">>,
              <<"C", "L", "U", "S", "T", "E", "R", "_", "I", "D", " ", "=", " ", "g", "7", "3", "c", "6", "d", "f", "2", "-", "f", "7", "f", "e", "-", "4", "f", "7", "c", "-", "b", "f", "7", "0", "-", "9", "f", "9", "4", "c", "c", "e", "2", "6", "4", "3", "0">>,
              <<"C", "L", "U", "S", "T", "E", "R", "_", "I", "D", " ", "=">>, << >> }
        ClusterNameLines ==
            { <<"C", "L", "U", "S", "T", "E", "R", "_", "N", "A", "M", "E", " ", "=", " ", "t", "e", "s", "t", "-", "c", "l", "u", "s", "t", "e", "r">>, <<"C", "L", "U", "S", "T", "E", "R", "_", "N", "A", "M", "E", " ", "=", " ">>, << >> }
        MgmtURLLines ==
            { <<"M", "G", "M", "T", "_", "U", "R", "L", " ", "=", " ", "h", "t", "t", "p", "s", ":", "/", "/", "a", "p", "i", ".", "v", "c", "l", "o", "u", "d", ".", "e", "x", "a", "m", "p", "l", "e", ".", "c", "o", "m">>,
              <<"M", "G", "M", "T", "_", "U", "R", "L", " ", "=", " ">> \o NotAURL, <<"M", "G", "M", "T", "_", "U", "R", "L", " ", "=", " ", ":", "/", "/", "h">>,
              <<"M", "G", "M", "T", "_", "U", "R", "L", " ", "=", " ", "h", "t", "t", "p", ":", "/", "/", "h", ":", "x">>, <<"M", "G", "M", "T", "_", "U", "R", "L", " ", "=">>, << >> }
        ProviderTokenLines ==
            { <<"P", "R", "O", "V", "I", "D", "E", "R", "_", "T", "O", "K", "E", "N", " ", "=", " ", "t", "e", "s", "t", "-", "t", "o", "k", "e", "n">>, <<";", " ", "P", "R", "O", "V", "I", "D", "E", "R", "_", "T", "O", "K", "E", "N", " ", "=", " ", "t", "e", "s", "t", "-", "t", "o", "k", "e", "n">>, << >> }
        ConfigTexts ==
            { h \o NL \o a \o NL \o b \o NL \o c \o NL \o d :
                h \in HeaderLines, a \in ClusterIDLines, b \in ClusterNameLines,
                c \in MgmtURLLines, d \in ProviderTokenLines }
            \cup
            { a \o NL \o b \o NL \o c \o NL \o d \o NL \o <<"[", "v", "C", "l", "o", "u", "d", "]">> :
                a \in ClusterIDLines, b \in ClusterNameLines,
                c \in MgmtURLLines, d \in ProviderTokenLines }
    IN  {[kind |-> "nil", text |-> << >>], [kind |-> "nilptr", text |-> << >>]}
        \cup {[kind |-> "reader", text |-> t] : t \in ConfigTexts}

\* NewVCloudProvider(config) is called, and returns or panics
NewProviderCall(p, config) ==
    /\ g[p].pc = "idle"
    /\ LET r == NewVCloudProvider(config)
       IN  g' = [g EXCEPT ![p] = [Idle EXCEPT
                !.pc = IF r.panics THEN "panicked" ELSE "returned",
                !.op = "NewVCloudProvider", !.config = config,
                !.provider = r.provider, !.perr = r.err]]
    /\ UNCHANGED <<cache, writer, readers, mine, invalidated, events>>

\* NewVCloudProvider over the configs
NextConfig == \E config \in Configs : NewProviderCall(1, config)

SpecConfig == Init /\ [][NextConfig]_vars

\* ------------------------------------------------------------------ labels
\* what the remote answers for GET /instances/<id>: live instances with any
\* of the flavors and cluster IDs, a 404 or a 500
LabelOutcomes ==
    LET Flavors ==
            { <<"k", "u", "b", "e", "r", "n", "e", "t", "e", "s", "=", "w", "o", "r", "k", "e", "r">>, <<"c", "2", "-", "s", "m", "a", "l", "l">>, <<"-", "x">>, [k \in 1..64 |-> "a"], << >> }
        ClusterIDs == {ValidUUID, <<"c", "=", "1">>, << >>}
    IN  Responses({200, 404, 500},
            {[Instance("active", s) EXCEPT !.Flavor = f, !.ClusterID = c] :
                s \in {"POWERED_ON", "POWERED_OFF"}, f \in Flavors, c \in ClusterIDs})

\* InstanceMetadata for one node, the remote reporting any of the flavors
NextLabels ==
    \/ \E d \in TickSteps : Tick(d)
    \/ OpCall(1, "InstanceMetadata", Node(<<"a">>, <<"n">>))
    \/ OpGuard(1)
    \/ GetCheck(1)
    \/ ReqAttemptFrom(1, LabelOutcomes)
    \/ ReqWake(1)
    \/ GetLock(1)
    \/ GetStore(1)
    \/ OpReturn(1)

SpecLabels == Init /\ [][NextLabels]_vars

\* ------------------------------------------------------------ loadbalancer.go
\* strconv for fmt.Sprintf("%d", n) and intstr.IntOrString.String()
RECURSIVE Itoa(_)
Itoa(n) ==
    IF n < 0 THEN <<"-">> \o Itoa(0 - n)
    ELSE IF n < 10 THEN <<Digits[n + 1]>>
    ELSE Itoa(n \div 10) \o <<Digits[(n % 10) + 1]>>

\* the node lists tried: a v1.Node is its Status.Addresses, a v1.NodeAddress
\* its Type and Address
LBNodeLists ==
    LET NodeAddress(type, address) == [Type |-> type, Address |-> address]
        AddressLists ==
            { << >>,
              <<NodeAddress("InternalIP", "10.0.1.100"), NodeAddress("ExternalIP", "1.2.3.4")>>,
              <<NodeAddress("ExternalIP", "1.2.3.5"), NodeAddress("InternalIP", "10.0.1.101")>>,
              <<NodeAddress("InternalIP", "10.0.1.102"), NodeAddress("InternalIP", "10.0.2.102")>>,
              <<NodeAddress("ExternalIP", "1.2.3.6")>>,
              <<NodeAddress("Hostname", "node-7"), NodeAddress("InternalIP", "")>> }
    IN  UNION {[1..n -> {[Addresses |-> a] : a \in AddressLists}] : n \in 0..MaxNodes}

\* the services tried.  A v1.ServicePort: TargetPort is an
\* intstr.IntOrString, AppProtocol a *string.
Services ==
    LET IntTarget(n) == [isInt |-> TRUE, IntVal |-> n, StrVal |-> << >>]
        StrTarget(s) == [isInt |-> FALSE, IntVal |-> 0, StrVal |-> s]
        ServicePort(name, port, target, protocol, nodePort, appProtocol) ==
            [Name |-> name, Port |-> port, TargetPort |-> target, Protocol |-> protocol,
             NodePort |-> nodePort, AppProtocol |-> appProtocol]
        NilString == [isNil |-> TRUE, val |-> << >>]
        StringPtr(s) == [isNil |-> FALSE, val |-> s]
        ServicePorts ==
            { ServicePort(<<"h", "t", "t", "p">>, 80, IntTarget(8080), "TCP", 30080, StringPtr(<<"h", "t", "t", "p">>)),
              ServicePort(<< >>, 443, IntTarget(8443), "TCP", 30443, NilString),
              ServicePort(<< >>, 0, StrTarget(<<"d", "n", "s">>), "UDP", 0, NilString),
              ServicePort(<<"p", "o", "r", "t", "-", "1">>, 65535, IntTarget(0 - 1), "TCP", 0, StringPtr(<< >>)) }
    IN  {[Name |-> "test-service", Namespace |-> "default", Type |-> "LoadBalancer",
          Ports |-> ports] : ports \in UNION {[1..n -> ServicePorts] : n \in 0..MaxPorts}}

\* the inner loop without its break: every internal address of the node
RECURSIVE nodeInternalIPsNoBreak(_)
nodeInternalIPsNoBreak(addrs) ==
    IF addrs = << >> THEN << >>
    ELSE (IF Head(addrs).Type = "InternalIP" THEN <<Head(addrs).Address>> ELSE << >>)
         \o nodeInternalIPsNoBreak(Tail(addrs))

\* buildLoadBalancerRequest, the inner loop: what one node appends to nodeIPs
RECURSIVE nodeInternalIPs(_)
nodeInternalIPs(addrs) ==
    IF addrs = << >> THEN << >>
    ELSE IF Head(addrs).Type = "InternalIP" THEN <<Head(addrs).Address>>
    ELSE nodeInternalIPs(Tail(addrs))

\* buildLoadBalancerRequest, the outer loop: nodeIPs
RECURSIVE extractNodeIPs(_)
extractNodeIPs(nodes) ==
    IF nodes = << >> THEN << >>
    ELSE nodeInternalIPs(Head(nodes).Addresses) \o extractNodeIPs(Tail(nodes))

\* buildLoadBalancerRequest: the LoadBalancerPort built for one service port
buildPort(svcPort) ==
    [Name |-> IF svcPort.Name = << >> THEN <<"p", "o", "r", "t", "-">> \o Itoa(svcPort.Port)
              ELSE svcPort.Name,
     Port |-> svcPort.Port,
     TargetPort |-> IF svcPort.TargetPort.isInt THEN Itoa(svcPort.TargetPort.IntVal)
                    ELSE svcPort.TargetPort.StrVal,
     Protocol |-> svcPort.Protocol,
     NodePort |-> svcPort.NodePort,
     AppProtocol |-> IF svcPort.AppProtocol.isNil THEN << >> ELSE svcPort.AppProtocol.val]

\* buildLoadBalancerRequest
buildLoadBalancerRequest(name, service, nodes) ==
    [isNil |-> FALSE, Name |-> name,
     Ports |-> [k \in 1..Len(service.Ports) |-> buildPort(service.Ports[k])],
     Nodes |-> extractNodeIPs(nodes),
     Namespace |-> service.Namespace, Type |-> service.Type]

\* buildLoadBalancerRequest("test-lb", service, nodes) is called and returns
BuildRequestCall(p, service, nodes) ==
    /\ g[p].pc = "idle"
    /\ g' = [g EXCEPT ![p] = [Idle EXCEPT
            !.pc = "returned", !.op = "buildLoadBalancerRequest",
            !.lb = [service |-> service, nodes |-> nodes, prev |-> 0,
                    req |-> buildLoadBalancerRequest("test-lb", service, nodes)]]]
    /\ UNCHANGED <<cache, writer, readers, mine, invalidated, events>>

\* buildLoadBalancerRequest over the services and the node lists
NextBuildRequest ==
    \E service \in Services, nodes \in LBNodeLists : BuildRequestCall(1, service, nodes)

SpecBuildRequest == Init /\ [][NextBuildRequest]_vars

\* EnsureLoadBalancerDeleted(ctx, clusterName, service) is called: Request's
\* loop is entered for DELETE /ingresses/<lbName>.  prev is the status that
\* ended the goroutine's previous call, 0 when there was none or it ended on
\* a transport error.
DeleteCall(p) ==
    /\ CanCall(p)
    /\ events' = events + 1
    /\ g' = [g EXCEPT ![p] = [Idle EXCEPT
            !.pc = "attempt", !.op = "EnsureLoadBalancerDeleted", !.arg = <<"l", "b">>,
            !.lb = [NoLB EXCEPT !.prev = IF g[p].resp.kind = "resp"
                                         THEN g[p].resp.status ELSE 0]]]
    /\ UNCHANGED <<cache, writer, readers, mine, invalidated>>

\* what httpClient.Do gives for the DELETE
DeleteOutcomes == Responses(StatusCodes \cup {204}, {}) \cup {TransportError}

\* one goroutine calling EnsureLoadBalancerDeleted again and again
NextDelete ==
    \/ \E d \in TickSteps : Tick(d)
    \/ DeleteCall(1)
    \/ ReqAttemptFrom(1, DeleteOutcomes)
    \/ ReqWake(1)

SpecDelete == Init /\ [][NextDelete]_vars

\* ------------------------------------------------ Request and its callers
\* strings.Contains
Contains(s, t) == \E k \in 0..(Len(s) - Len(t)) : SubSeq(s, k + 1, k + Len(t)) = t

\* Request: the URL.  url := p.mgmtURL; if !strings.Contains(p.mgmtURL,
\* "/clusters/") { url = mgmtURL + "/clusters/" + clusterID }; if path != ""
\* { url = url + path }
requestURL(mgmtURL, clusterID, path) ==
    (IF ~Contains(mgmtURL, <<"/", "c", "l", "u", "s", "t", "e", "r", "s", "/">>) THEN mgmtURL \o <<"/", "c", "l", "u", "s", "t", "e", "r", "s", "/">> \o clusterID
     ELSE mgmtURL) \o path

\* the callers of Request, with the method, the path and whether a body is
\* passed: GetInstanceInfo for the instances "a" and "%", and the four load
\* balancer operations for the load balancer "l"
RequestCallers ==
    { [caller |-> "GetInstanceInfo", method |-> "GET", path |-> <<"/", "i", "n", "s", "t", "a", "n", "c", "e", "s", "/", "a">>, hasBody |-> FALSE],
      [caller |-> "GetInstanceInfo", method |-> "GET", path |-> <<"/", "i", "n", "s", "t", "a", "n", "c", "e", "s", "/", "%">>, hasBody |-> FALSE],
      [caller |-> "GetLoadBalancer", method |-> "GET", path |-> <<"/", "i", "n", "g", "r", "e", "s", "s", "e", "s", "/", "l">>, hasBody |-> FALSE],
      [caller |-> "EnsureLoadBalancer", method |-> "POST", path |-> <<"/", "i", "n", "g", "r", "e", "s", "s", "e", "s">>, hasBody |-> TRUE],
      [caller |-> "UpdateLoadBalancer", method |-> "PUT", path |-> <<"/", "i", "n", "g", "r", "e", "s", "s", "e", "s", "/", "l">>, hasBody |-> TRUE],
      [caller |-> "EnsureLoadBalancerDeleted", method |-> "DELETE", path |-> <<"/", "i", "n", "g", "r", "e", "s", "s", "e", "s", "/", "l">>, hasBody |-> FALSE] }

\* the bases and cluster IDs the provider is configured with
MgmtURLs ==
    { <<"h">>, <<"h", "/", "c", "l", "u", "s", "t", "e", "r", "s", "/", "7">>, <<"h", "/", "c", "l", "u", "s", "t", "e", "r", "s", "/", "8">>,
      <<"h", "/", "c", "l", "u", "s", "t", "e", "r", "s", "/">>, <<"h", "/", "c", "l", "u", "s", "t", "e", "r", "s">>, <<"h", "/", "c", "l", "u", "s", "t", "e", "r", "s", "/", "7", "/", "v">> }
RequestClusterIDs == { <<"7">> }

\* the bytes json.Marshal gives the callers that pass a body
MarshalledBody == <<"{", "}">>

\* what httpClient.Do gives: a response and no error; no response and an
\* error; or, when the redirect policy fails, the last response, its body
\* already closed, and an error
DoOutcomes ==
    {[hasResp |-> TRUE, status |-> c, err |-> ""] : c \in {200, 201, 404, 500, 503}}
    \cup {[hasResp |-> FALSE, status |-> 0, err |-> "transport"],
          [hasResp |-> TRUE, status |-> 302, err |-> "redirect"]}

\* a caller calls Request(ctx, method, path, body): the URL is built and the
\* loop entered.  The callers that pass a body pass bytes.NewReader(body).
RequestCall(p, c, mgmtURL, clusterID) ==
    /\ CanCall(p)
    /\ events' = events + 1
    /\ g' = [g EXCEPT ![p] = [Idle EXCEPT
            !.pc = "attempt", !.op = "Request",
            !.rq = [NoRq EXCEPT
                !.caller = c.caller, !.method = c.method, !.path = c.path,
                !.hasBody = c.hasBody,
                !.body = IF c.hasBody THEN MarshalledBody ELSE << >>,
                !.mgmtURL = mgmtURL, !.clusterID = clusterID,
                !.url = requestURL(mgmtURL, clusterID, c.path)]]]
    /\ UNCHANGED <<cache, writer, readers, mine, invalidated>>

\* a Request that returns, when the attempts are used up, what Do gave
requestReturnAsDo(s, out, k) ==
    IF out.err # "" /\ s.i = maxRetries - 1 THEN [resp |-> k, err |-> out.err]
    ELSE IF out.err # "" THEN [resp |-> 0, err |-> out.err]
    ELSE [resp |-> k, err |-> ""]

\* Request: what it returns when Do has given out and the loop does not go
\* on; k is the place of the response in got, 0 when Do gave none.
\*   if err != nil { ... return nil, err };  return resp, nil
requestReturn(s, out, k) ==
    IF out.err # "" THEN [resp |-> 0, err |-> out.err]
    ELSE [resp |-> k, err |-> ""]

\* http.NewRequestWithContext(ctx, method, url, body) for a *bytes.Reader:
\* the request carries what is left unread of it
bodyLeft(rq) == SubSeq(rq.body, rq.pos + 1, Len(rq.body))

\* Request: resp.Body.Close() is called in this pass of the loop
closesRetried(s, out) == out.err = "" /\ out.status >= 500 /\ s.i < maxRetries - 1

\* One pass of Request's loop.  http.NewRequestWithContext fails for a URL
\* url.Parse rejects and Request returns that error.  Otherwise Do sends the
\* request, reading n more bytes of the body reader (all that is left when a
\* response comes back), and gives out; an error, or a status >= 500, with
\* attempts left sleeps and continues; anything else returns.
RequestPass(p) ==
    /\ g[p].pc = "attempt" /\ g[p].op = "Request"
    /\ IF Unbuildable(g[p].rq.url)
       THEN g' = [g EXCEPT ![p] = [@ EXCEPT
                !.pc = "requested", !.rq.resp = 0, !.rq.err = "failed to create request"]]
       ELSE \E out \in DoOutcomes :
            \E n \in 0..Len(bodyLeft(g[p].rq)) :
              /\ (out.hasResp /\ out.err = "") => n = Len(bodyLeft(g[p].rq))
              /\ LET s == g[p]
                     rq == [s.rq EXCEPT
                            !.sent = Append(@, [url |-> s.rq.url, body |-> bodyLeft(s.rq)]),
                            !.pos = @ + n,
                            !.got = IF out.hasResp
                                    THEN Append(@, [status |-> out.status,
                                                    byClient |-> IF out.err # "" THEN 1 ELSE 0,
                                                    byRequest |-> IF closesRetried(s, out) THEN 1 ELSE 0,
                                                    byCaller |-> 0])
                                    ELSE @]
                     k == IF out.hasResp THEN Len(rq.got) ELSE 0
                     t == [s EXCEPT !.rq = rq, !.nreq = @ + 1,
                                    !.tried = Append(@, [kind |-> IF out.err # "" THEN "err" ELSE "resp",
                                                         status |-> out.status])]
                 IN  g' = [g EXCEPT ![p] =
                        IF (out.err # "" \/ out.status >= 500) /\ s.i < maxRetries - 1
                        THEN Backoff(t)
                        ELSE [t EXCEPT !.pc = "requested",
                                       !.rq.resp = requestReturn(s, out, k).resp,
                                       !.rq.err = requestReturn(s, out, k).err]]
    /\ UNCHANGED <<cache, writer, readers, mine, invalidated, events>>

\* a caller that closes the body only when the status is the one it expects
callerClosesOnSuccess(rq) ==
    rq.err = "" /\ rq.got[rq.resp].status \in {200, 201}

\* the callers: resp, err := Request(...); if err != nil { return ... };
\* defer resp.Body.Close(): the body is closed when the caller returns
callerCloses(rq) == rq.err = ""

\* the caller goes on after Request has returned, and returns
CallerReturn(p) ==
    /\ g[p].pc = "requested"
    /\ g' = [g EXCEPT ![p] = [@ EXCEPT
            !.pc = "returned",
            !.rq.got = IF callerCloses(g[p].rq)
                       THEN [@ EXCEPT ![g[p].rq.resp].byCaller = @ + 1]
                       ELSE @]]
    /\ UNCHANGED <<cache, writer, readers, mine, invalidated, events>>

\* one goroutine making calls of Request through its callers
NextRequest ==
    \/ \E d \in TickSteps : Tick(d)
    \/ \E c \in RequestCallers, u \in MgmtURLs, id \in RequestClusterIDs :
          RequestCall(1, c, u, id)
    \/ RequestPass(1)
    \/ ReqWake(1)
    \/ CallerReturn(1)

SpecRequest == Init /\ [][NextRequest]_vars

\* ------------------------------------------------------------ termination
\* The calls of the cache with the wait for the lock as a place of its own:
\* the goroutine has called and stands before c.mu.RLock() or c.mu.Lock().
CacheCall(p, op, id) ==
    /\ CanCall(p)
    /\ events' = events + 1
    /\ g' = [g EXCEPT ![p] = [Idle EXCEPT !.pc = "wait", !.op = op, !.arg = id]]
    /\ UNCHANGED <<cache, writer, readers, mine, invalidated>>

\* the lock is granted to the caller that waits for it: RLock to a get when
\* no goroutine holds Lock, Lock to an invalidate or a clear when no
\* goroutine holds the lock at all
CacheLock(p) ==
    /\ g[p].pc = "wait"
    /\ IF g[p].op = "get"
       THEN GetBegin(p, g[p].arg, g[p])
       ELSE /\ writer = 0
            /\ readers = {}
            /\ writer' = p
            /\ g' = [g EXCEPT ![p] = [@ EXCEPT
                    !.pc = IF g[p].op = "invalidate" THEN "idelete" ELSE "cmake"]]
            /\ UNCHANGED <<cache, readers, mine, invalidated>>
    /\ UNCHANGED events

\* the time a sleeping goroutine waits for passes
SleepEnds ==
    /\ \E p \in Procs : g[p].pc = "sleep" /\ g[p].sleepLeft > 0
    /\ TimePasses(nonExistentCacheTTL)
    /\ UNCHANGED events

\* what an HTTP attempt returns with: an instance, a 500 or an error
LiveOutcomes ==
    {out \in MainOutcomes : out.status # 404 /\ (out.status = 200 => out.body \in MainInstances)}

\* the steps of the call of p
CallStep(p) ==
    \/ CacheLock(p)
    \/ GetCheck(p)
    \/ ReqAttemptFrom(p, LiveOutcomes)
    \/ ReqWake(p)
    \/ GetLock(p)
    \/ GetStore(p)
    \/ InvalidateDelete(p)
    \/ ClearMake(p)

\* get, invalidate and clear for one ID, called by every goroutine
NextLive ==
    \/ \E d \in TickSteps : Tick(d)
    \/ SleepEnds
    \/ \E p \in Procs, op \in {"get", "invalidate", "clear"} : CacheCall(p, op, <<"a">>)
    \/ \E p \in Procs : CallStep(p)

\* Fair scheduling: a goroutine whose next step stays possible takes it, an
\* HTTP attempt returns, and the time of a sleep passes.
SpecLive ==
    /\ Init
    /\ [][NextLive]_vars
    /\ \A p \in Procs : WF_vars(CallStep(p))
    /\ WF_vars(SleepEnds)

\* ------------------------------------------------------------- properties
ShutdownStateNames ==
    {"POWERED_OFF", "SUSPENDED", "TERMINATED", "BACKUP", "BACKUP_POWEROFF"}

\* a get that has returned
Done(p) == g[p].pc = "done" /\ g[p].op = "get"

\* C1: a get that finds an entry whose age is at most its ttl returns that
\* entry's record with a nil error, makes no HTTP request and leaves the
\* cache map unchanged.
C1_FreshHit ==
    [][\A p \in Procs :
        (/\ g[p].pc = "runlock" /\ g'[p].pc # "runlock"
         /\ g[p].entry.exists /\ g[p].entry.age <= g[p].entry.ttl)
        => (/\ g'[p].pc = "done"
            /\ g'[p].rinfo = g[p].entry.info
            /\ g'[p].rerr = NoErr
            /\ g'[p].nreq = 0
            /\ cache' = cache)]_vars

\* a live entry exactly as old as its ttl has been served
C1_Witness ==
    \E p \in Procs :
        /\ Done(p) /\ g[p].nreq = 0 /\ g[p].rerr = NoErr
        /\ g[p].entry.exists /\ g[p].entry.age = g[p].entry.ttl
        /\ g[p].entry.info.Exists /\ g[p].rinfo = g[p].entry.info

\* C2 as stated: a goroutine whose get(id) stored an entry and that calls
\* get(id) again within that entry's ttl, no invalidate(id) or clear() in
\* between, whatever other get calls did, gets the record it got before and
\* makes no request.
C2_Original ==
    [][\A p \in Procs :
        (/\ g[p].pc = "runlock" /\ g'[p].pc # "runlock"
         /\ mine[p].set /\ mine[p].id = g[p].arg
         /\ mine[p].age <= mine[p].ttl)
        => (/\ g'[p].pc = "done"
            /\ g'[p].rinfo = mine[p].data
            /\ g'[p].nreq = 0)]_vars

\* C2: a goroutine whose get(id) stored an entry and that calls get(id)
\* again within that entry's ttl, with no invalidate(id), no clear() and no
\* store of another get(id) in between, gets the record it got before and
\* makes no request.
C2_Amended ==
    [][\A p \in Procs :
        (/\ g[p].pc = "runlock" /\ g'[p].pc # "runlock"
         /\ mine[p].set /\ mine[p].id = g[p].arg /\ ~mine[p].over
         /\ mine[p].age <= mine[p].ttl)
        => (/\ g'[p].pc = "done"
            /\ g'[p].rinfo = mine[p].data
            /\ g'[p].nreq = 0)]_vars

\* a second call has been served the first call's own entry
C2_Witness ==
    \E p \in Procs :
        /\ Done(p) /\ g[p].nreq = 0
        /\ mine[p].set /\ mine[p].id = g[p].arg /\ ~mine[p].over
        /\ g[p].rinfo = mine[p].data

\* C3: every entry of the cache has ttl 30 when its record exists and ttl 5
\* when it does not.
C3_TTLByExists ==
    \A id \in DOMAIN cache :
        cache[id].ttl = IF cache[id].info.Exists THEN 30 ELSE 5

\* the cache holds an entry of each class
C3_Witness ==
    \E id1, id2 \in DOMAIN cache :
        /\ cache[id1].info.Exists /\ cache[id1].ttl = 30
        /\ ~cache[id2].info.Exists /\ cache[id2].ttl = 5

\* C4: when GetInstanceInfo returns an error inside get, get returns that
\* error and no record, and the cache map is what it was.
C4_ErrorPropagates ==
    [][\A p \in Procs :
        (/\ g[p].pc = "attempt" /\ g'[p].resp # NoResp
         /\ GetInstanceInfo(g[p].arg, g'[p].resp).err # NoErr)
        => (/\ g'[p].pc = "done"
            /\ g'[p].rerr = GetInstanceInfo(g[p].arg, g'[p].resp).err
            /\ g'[p].rinfo.isNil
            /\ cache' = cache)]_vars

\* a get has failed on the transport error of its last attempt, and the map
\* holds no entry for its id
C4_Witness ==
    \E p \in Procs :
        /\ Done(p) /\ g[p].rerr = ErrRequest /\ g[p].rinfo.isNil
        /\ g[p].nreq = maxRetries
        /\ g[p].arg \notin DOMAIN cache

\* C5: a get that found an expired entry has made a request, and returns
\* either the error and no record, or the record its own resolver call
\* returned.
C5_NoStaleServed ==
    \A p \in Procs :
        (Done(p) /\ g[p].entry.exists /\ g[p].entry.age > g[p].entry.ttl)
        => /\ g[p].nreq >= 1
           /\ \/ g[p].rerr # NoErr /\ g[p].rinfo.isNil
              \/ g[p].rerr = NoErr /\ ~g[p].info.isNil /\ g[p].rinfo = g[p].info

\* a get that found an expired entry has returned the decode error, and the
\* expired entry is still in the map
C5_Witness ==
    \E p \in Procs :
        /\ Done(p) /\ g[p].entry.exists /\ g[p].entry.age > g[p].entry.ttl
        /\ g[p].rerr = ErrDecode /\ g[p].rinfo.isNil
        /\ g[p].arg \in DOMAIN cache
        /\ cache[g[p].arg].info = g[p].entry.info

\* C6 as stated, for the records a get fetched itself: the request that
\* produced the record was made at most 30 (present) or 5 (absent) seconds
\* before get returns.
C6_Original ==
    \A p \in Procs :
        (Done(p) /\ g[p].rerr = NoErr /\ g[p].nreq >= 1)
        => g[p].lag <= (IF g[p].rinfo.Exists THEN 30 ELSE 5)

\* C6: a record get returns is either the record of an entry stored at most
\* 30 (present) or 5 (absent) seconds before get tested it, or the record its
\* own resolver call returned.
C6_Amended ==
    \A p \in Procs :
        (Done(p) /\ g[p].rerr = NoErr)
        => \/ /\ g[p].nreq = 0
              /\ g[p].entry.exists
              /\ g[p].entry.age <= (IF g[p].entry.info.Exists THEN 30 ELSE 5)
              /\ g[p].rinfo = g[p].entry.info
           \/ /\ g[p].nreq >= 1
              /\ ~g[p].info.isNil
              /\ g[p].rinfo = g[p].info

\* an absent record has been served from an entry 5 seconds old
C6_Witness ==
    \E p \in Procs :
        /\ Done(p) /\ g[p].rerr = NoErr /\ g[p].nreq = 0
        /\ ~g[p].rinfo.Exists
        /\ g[p].entry.exists /\ g[p].entry.age = 5

\* C7: a get(id) that reads the map after invalidate(id) deleted the entry,
\* no store for id in between, finds nothing, makes a request and returns
\* what its resolver call returned, whatever the entry was before.
C7_FetchAfterInvalidate ==
    \A p \in Procs :
        (g[p].op = "get" /\ g[p].afterInv # "no")
        => /\ ~g[p].entry.exists
           /\ g[p].pc = "done" =>
                /\ g[p].nreq >= 1
                /\ \/ g[p].rerr # NoErr
                   \/ ~g[p].info.isNil /\ g[p].rinfo = g[p].info

\* a get after the invalidate of a fresh entry has fetched and returned
C7_Witness ==
    \E p \in Procs :
        /\ Done(p) /\ g[p].afterInv = "fresh"
        /\ g[p].nreq >= 1 /\ g[p].rerr = NoErr /\ ~g[p].rinfo.isNil

\* C8: for a final status 404, and for a status 200 whose decoded instance
\* has status "terminated", GetInstanceInfo returns a record with Exists
\* false and a nil error.
C8_AbsentRecord ==
    \A p \in Procs :
        (/\ g[p].resp.kind = "resp"
         /\ \/ g[p].resp.status = 404
            \/ /\ g[p].resp.status = 200
               /\ g[p].resp.body.decodes
               /\ g[p].resp.body.Status = "terminated")
        => /\ ~g[p].info.isNil
           /\ ~g[p].info.Exists
           /\ g[p].err = NoErr

\* a get has returned the absent record of a terminated instance
C8_Witness ==
    \E p \in Procs :
        /\ Done(p)
        /\ g[p].resp.status = 200 /\ g[p].resp.body.Status = "terminated"
        /\ ~g[p].rinfo.isNil /\ ~g[p].rinfo.Exists /\ g[p].rerr = NoErr

\* C9: for a final status other than 200 and 404, and for a status 200
\* whose body does not decode, GetInstanceInfo returns an error and no
\* record, get returns without storing, and no entry of the cache holds a
\* missing record.
C9_ErrorStatuses ==
    /\ \A p \in Procs :
         (/\ g[p].resp.kind = "resp"
          /\ \/ g[p].resp.status \notin {200, 404}
             \/ g[p].resp.status = 200 /\ ~g[p].resp.body.decodes)
         => /\ g[p].err # NoErr
            /\ g[p].info.isNil
            /\ g[p].pc = "done"
            /\ g[p].rerr = g[p].err
            /\ g[p].rinfo.isNil
    /\ \A id \in DOMAIN cache : ~cache[id].info.isNil

\* a get has failed on a 500 that was still there at the last attempt
C9_Witness ==
    \E p \in Procs :
        /\ Done(p) /\ g[p].resp.kind = "resp" /\ g[p].resp.status = 500
        /\ g[p].nreq = maxRetries
        /\ g[p].rerr = ErrStatus(500) /\ g[p].rinfo.isNil
        /\ g[p].arg \notin DOMAIN cache

\* C10: isInstanceShutdown is true for POWERED_OFF, SUSPENDED, TERMINATED,
\* BACKUP and BACKUP_POWEROFF and false for every other state, and the
\* Shutdown flag of a live record is that classification of the state the
\* remote sent.
C10_ShutdownStates ==
    /\ \A s \in PowerStates : isInstanceShutdown(s) = (s \in ShutdownStateNames)
    /\ \A p \in Procs :
         (~g[p].info.isNil /\ g[p].info.Exists)
         => /\ g[p].info.RawInstance = g[p].resp.body
            /\ g[p].info.Shutdown = (g[p].resp.body.State \in ShutdownStateNames)

\* a get has returned the live record of an instance in BACKUP_POWEROFF
C10_Witness ==
    \E p \in Procs :
        /\ Done(p) /\ g[p].rerr = NoErr
        /\ g[p].rinfo.Exists /\ g[p].rinfo.Shutdown
        /\ g[p].resp.body.State = "BACKUP_POWEROFF"

\* C11 as stated: the provider ID an operation extracts is the declared
\* provider ID after its first "://" when it has one, else the declared
\* provider ID when that is not empty, else the node name.
C11_Original ==
    \A p \in Procs :
        g[p].pc = "guard" =>
            LET id == g[p].node.ProviderID
                i == Index(id)
            IN  g[p].arg = IF i # 0 THEN SubSeq(id, i + 3, Len(id))
                           ELSE IF id # NoId THEN id
                           ELSE g[p].node.Name

\* C12 as stated: the provider ID an operation extracts is empty only when
\* the declared provider ID and the node name are both empty.
C12_Original ==
    \A p \in Procs :
        (g[p].pc = "guard" /\ (g[p].node.ProviderID # NoId \/ g[p].node.Name # NoId))
        => g[p].arg # NoId

\* C13: an operation whose extracted provider ID is empty returns an error
\* without calling the cache and without an HTTP request, and leaves the
\* cache and its lock as they are.
C13_EmptyIDRejected ==
    [][\A p \in Procs :
        (g[p].pc = "guard" /\ g[p].arg = NoId /\ g'[p] # g[p])
        => (/\ g'[p].pc = "returned"
            /\ g'[p].res.err = ErrEmptyID
            /\ g'[p].op = "none"
            /\ g'[p].nreq = 0
            /\ cache' = cache
            /\ readers' = readers
            /\ writer' = writer)]_vars

\* InstanceMetadata has refused a node whose provider ID is only a scheme
\* while the cache held an entry
C13_Witness ==
    \E p \in Procs :
        /\ g[p].pc = "returned" /\ g[p].api = "InstanceMetadata"
        /\ g[p].node.ProviderID # NoId /\ g[p].arg = NoId
        /\ g[p].res.err = ErrEmptyID /\ g[p].nreq = 0
        /\ cache # EmptyCache

\* C14: for a non-empty provider ID, when the lookup succeeds InstanceExists
\* returns the record's Exists flag and no error, InstanceShutdown and
\* InstanceMetadata return InstanceNotFound exactly when the record does not
\* exist and else the Shutdown flag / the metadata and no error; when the
\* lookup fails each returns that error, which is not InstanceNotFound.
C14_OperationResults ==
    \A p \in Procs :
        (g[p].pc = "returned" /\ g[p].arg # NoId)
        => IF g[p].rerr # NoErr
           THEN g[p].res.err = g[p].rerr /\ g[p].res.err # InstanceNotFound
           ELSE IF g[p].api = "InstanceExists"
           THEN g[p].res.flag = g[p].rinfo.Exists /\ g[p].res.err = NoErr
           ELSE /\ (g[p].res.err = InstanceNotFound) <=> ~g[p].rinfo.Exists
                /\ g[p].rinfo.Exists =>
                     /\ g[p].res.err = NoErr
                     /\ g[p].api = "InstanceShutdown" =>
                            g[p].res.flag = g[p].rinfo.Shutdown
                     /\ g[p].api = "InstanceMetadata" =>
                            g[p].res.meta = g[p].rinfo.ProviderID

\* InstanceShutdown has returned InstanceNotFound for an instance the remote
\* does not know
C14_Witness ==
    \E p \in Procs :
        /\ g[p].pc = "returned" /\ g[p].api = "InstanceShutdown"
        /\ g[p].arg # NoId /\ g[p].rerr = NoErr /\ ~g[p].rinfo.Exists
        /\ g[p].res.err = InstanceNotFound

\* an outcome of httpClient.Do that Request retries while attempts are left
Retryable(t) == t.kind = "err" \/ t.status >= 500

\* C15 as stated: a pass of Request's loop makes one more HTTP attempt, the
\* attempts of a call number 1 to 3, the call goes on to a further attempt
\* exactly when fewer than 3 are made and this one failed at the transport
\* or gave a status >= 500, and otherwise returns with this attempt's
\* outcome.
C15_Original ==
    [][\A p \in Procs :
        (g[p].pc = "attempt" /\ g'[p].pc # "attempt")
        => LET n == Len(g'[p].tried)
           IN  /\ n = Len(g[p].tried) + 1
               /\ g'[p].nreq = n
               /\ n \in 1..3
               /\ (g'[p].pc = "sleep") <=> (n < 3 /\ Retryable(g'[p].tried[n]))
               /\ g'[p].pc # "sleep" =>
                    /\ g'[p].resp.kind = g'[p].tried[n].kind
                    /\ g'[p].resp.status = g'[p].tried[n].status]_vars

\* C15: when the request can be built the pass behaves as C15 states; when
\* http.NewRequestWithContext fails, Request returns an error at once and
\* no HTTP attempt is made.
C15_Amended ==
    [][\A p \in Procs :
        (g[p].pc = "attempt" /\ g'[p].pc # "attempt")
        => IF Unbuildable(g[p].arg)
           THEN /\ g'[p].tried = g[p].tried
                /\ g'[p].nreq = 0
                /\ g'[p].pc = "done"
                /\ g'[p].resp.kind = "err"
                /\ g'[p].rerr # NoErr
           ELSE LET n == Len(g'[p].tried)
                IN  /\ n = Len(g[p].tried) + 1
                    /\ g'[p].nreq = n
                    /\ n \in 1..3
                    /\ (g'[p].pc = "sleep") <=> (n < 3 /\ Retryable(g'[p].tried[n]))
                    /\ g'[p].pc # "sleep" =>
                         /\ g'[p].resp.kind = g'[p].tried[n].kind
                         /\ g'[p].resp.status = g'[p].tried[n].status]_vars

\* a call has ended on a 403 at its second attempt, after a 503
C15_Witness ==
    \E p \in Procs :
        /\ Done(p) /\ g[p].nreq = 2 /\ Len(g[p].tried) = 2
        /\ g[p].tried[1].status = 503
        /\ g[p].tried[2].status = 403
        /\ g[p].resp.status = 403

\* C16: the backoff sleeps of a call are 1 second after its first attempt
\* and 2 seconds after its second, one per retried attempt and none after
\* the last attempt: at most two.  While Request runs every attempt made
\* so far has been followed by its sleep; once it has returned, every
\* attempt but the last.
C16_Backoff ==
    \A p \in Procs :
        /\ Len(g[p].slept) <= 2
        /\ \A k \in 1..Len(g[p].slept) :
             g[p].slept[k] = k /\ Retryable(g[p].tried[k])
        /\ Len(g[p].slept) = IF g[p].pc \in {"sleep", "attempt"} \/ g[p].nreq = 0
                              THEN g[p].nreq
                              ELSE g[p].nreq - 1

\* transport errors at attempts 1 and 2 and a decodable 200 at attempt 3:
\* the call has succeeded after sleeps of 1 and 2 seconds
C16_Witness ==
    \E p \in Procs :
        /\ Done(p) /\ g[p].rerr = NoErr /\ ~g[p].rinfo.isNil
        /\ Len(g[p].tried) = 3
        /\ g[p].tried[1].kind = "err" /\ g[p].tried[2].kind = "err"
        /\ g[p].tried[3].status = 200
        /\ g[p].slept = <<1, 2>>

\* C17: when the three attempts of a call all failed at the transport or
\* gave a status >= 500, Request returns what the third gave: no response
\* and the error for a transport error, the response for a status >= 500.
C17_LastOutcome ==
    \A p \in Procs :
        (/\ g[p].pc = "done" /\ Len(g[p].tried) = 3
         /\ \A k \in 1..3 : Retryable(g[p].tried[k]))
        => /\ g[p].resp.kind = g[p].tried[3].kind
           /\ g[p].resp.status = g[p].tried[3].status
           /\ g[p].tried[3].kind = "err" => g[p].resp = TransportError
           /\ g[p].rerr = IF g[p].tried[3].kind = "err" THEN ErrRequest
                           ELSE ErrStatus(g[p].tried[3].status)

\* a call has returned the 503 of its third attempt, after a 500 and a
\* transport error
C17_Witness ==
    \E p \in Procs :
        /\ Done(p) /\ Len(g[p].tried) = 3
        /\ g[p].tried[1].status = 500
        /\ g[p].tried[2].kind = "err"
        /\ g[p].tried[3].status = 503
        /\ g[p].resp.status = 503
        /\ g[p].rerr = ErrStatus(503)

\* C18 as stated: once the context of a call is cancelled while Request
\* runs, in an attempt or in a sleep, the attempt under way or the next one
\* fails with the context's error, and the call begins no backoff sleep and
\* no attempt after it.
C18_Original ==
    \A p \in Procs :
        g[p].cancelAt \in {"attempt", "sleep"}
        => g[p].cSleeps = 0 /\ g[p].cAttempts <= 1

\* C19 as stated: a get whose context was cancelled before it returned has
\* returned an error, and has stored nothing.
C19_Original ==
    \A p \in Procs :
        (Done(p) /\ g[p].cancelled)
        => /\ g[p].rerr # NoErr
           /\ g[p].rinfo.isNil
           /\ ~(g[p].arg \in DOMAIN cache /\ cache[g[p].arg].age = 0 /\ g[p].nreq >= 1)

\* C19: a get whose context was cancelled before the last HTTP attempt of
\* its Request ended never reaches the store, and returns the error and no
\* record.
C19_Amended ==
    \A p \in Procs :
        g[p].cAttempts >= 1
        => /\ g[p].pc \in {"sleep", "attempt", "done"}
           /\ g[p].pc = "done" =>
                /\ g[p].rerr = ErrRequest
                /\ g[p].rinfo.isNil
                /\ g[p].nreq = maxRetries

\* a get cancelled during its first attempt has returned the error after
\* three attempts, and the map has no entry for its id
C19_Witness ==
    \E p \in Procs :
        /\ Done(p) /\ g[p].cancelled /\ g[p].cAttempts = maxRetries
        /\ g[p].rerr = ErrRequest
        /\ g[p].arg \notin DOMAIN cache

\* C20: the store of get puts the new entry in the map; when the map then
\* holds more than 100 entries, and only then, every entry past its ttl is
\* deleted and every other entry, the new one among them, is kept as it is.
C20_Sweep ==
    [][\A p \in Procs :
        (g[p].pc = "store" /\ g'[p].pc = "done")
        => LET id == g[p].arg
               after == DOMAIN cache \cup {id}
           IN  /\ id \in DOMAIN cache'
               /\ cache'[id].info = g[p].info
               /\ cache'[id].age = 0
               /\ DOMAIN cache' =
                    IF Cardinality(after) > 100
                    THEN {k \in after : k = id \/ cache[k].age <= cache[k].ttl}
                    ELSE after
               /\ \A k \in DOMAIN cache' \ {id} : cache'[k] = cache[k]]_vars

\* the store of a 101st entry has swept the expired entries 1 and 2 away
\* and kept the fresh entry 3 and the new one
C20_Witness ==
    /\ Cardinality(DOMAIN cache) = cacheSizeLimit - 1
    /\ SweepId(1) \notin DOMAIN cache
    /\ SweepId(2) \notin DOMAIN cache
    /\ SweepId(3) \in DOMAIN cache
    /\ SweepId(cacheSizeLimit + 1) \in DOMAIN cache
    /\ \E p \in Procs : Done(p) /\ g[p].arg = SweepId(cacheSizeLimit + 1)

\* C21: the goroutine reading the map holds the read lock and no goroutine
\* holds the write lock; the goroutine writing the map holds the write lock
\* and no goroutine holds the read lock.  When the only calls made on the
\* empty cache are one get per goroutine, for distinct IDs, each fetch
\* succeeding at its first attempt, then after all have returned the map
\* holds exactly one entry per ID, with the record fetched for that ID.
C21_DistinctIds ==
    /\ writer # 0 => readers = {}
    /\ \A p \in Procs :
          /\ g[p].pc = "runlock" => p \in readers /\ writer = 0
          /\ g[p].pc \in {"store", "idelete", "cmake"} => writer = p
    /\ ( /\ events = Cardinality(Procs)
         /\ \A p \in Procs : Done(p) /\ g[p].nreq = 1 /\ g[p].rerr = NoErr
         /\ \A p, q \in Procs : p # q => g[p].arg # g[q].arg )
       => /\ DOMAIN cache = {g[p].arg : p \in Procs}
          /\ Cardinality(DOMAIN cache) = Cardinality(Procs)
          /\ \A p \in Procs :
                /\ cache[g[p].arg].info = GetInstanceInfo(g[p].arg, g[p].resp).info
                /\ cache[g[p].arg].info = g[p].rinfo
                /\ cache[g[p].arg].ttl = cacheTTL(g[p].rinfo)

\* both goroutines have fetched and stored, one a live and one an absent
\* instance, for distinct IDs
C21_Witness ==
    /\ events = Cardinality(Procs)
    /\ \A p \in Procs : Done(p) /\ g[p].nreq = 1 /\ g[p].rerr = NoErr
    /\ g[1].arg # g[2].arg
    /\ g[1].rinfo.Exists /\ ~g[2].rinfo.Exists
    /\ Cardinality(DOMAIN cache) = 2

\* C22: a get that fails changes nothing for any other ID: no step of the
\* call before its store, and in particular the step in which it returns
\* the error, changes the map, the lock's writer or the other goroutines;
\* and what any get returns is a function of the entry it read for its own
\* ID and of the response to its own fetch.
C22_FailureFrame ==
    [][\A p \in Procs :
        LET ResultOf(s) ==
                IF s.entry.exists /\ ~isExpired(s.entry)
                THEN [info |-> s.entry.info, err |-> NoErr]
                ELSE LET r == GetInstanceInfo(s.arg, s.resp)
                     IN  [info |-> IF r.err # NoErr THEN NoInfo ELSE r.info,
                          err |-> r.err]
        IN
        /\ ( /\ g[p].op = "get" /\ g[p].pc \in {"runlock", "attempt", "sleep"}
             /\ g'[p] # g[p] /\ events' = events )
           => /\ cache' = cache
              /\ UNCHANGED <<writer, mine, invalidated>>
              /\ \A q \in Procs \ {p} : g'[q] = g[q]
        /\ (g'[p].pc = "done" /\ g'[p].op = "get" /\ g'[p].rerr # NoErr /\ g[p].pc # "done")
           => /\ g[p].pc = "attempt"
              /\ \A b \in DOMAIN cache \ {g[p].arg} :
                    b \in DOMAIN cache' /\ cache'[b] = cache[b]
              /\ DOMAIN cache' = DOMAIN cache
        /\ (g'[p].pc = "done" /\ g'[p].op = "get")
           => /\ g'[p].rinfo = ResultOf(g'[p]).info
              /\ g'[p].rerr = ResultOf(g'[p]).err]_vars

\* a get has failed while the map holds the entry another goroutine's get
\* stored for another ID, and that get returned the record of its own fetch
C22_Witness ==
    \E p, q \in Procs :
        /\ Done(p) /\ g[p].rerr # NoErr
        /\ Done(q) /\ g[q].rerr = NoErr /\ g[q].arg # g[p].arg
        /\ g[q].arg \in DOMAIN cache /\ g[p].arg \notin DOMAIN cache
        /\ cache[g[q].arg].info = g[q].rinfo

\* C23: invalidate(id) leaves the map without an entry for id, whether the
\* entry was fresh, expired or not there (then the map is what it was), and
\* with every other entry as it was; clear() leaves the map without entries.
C23_InvalidateClear ==
    [][\A p \in Procs :
        /\ (g[p].pc = "idelete" /\ g'[p].pc = "done")
           => /\ g[p].arg \notin DOMAIN cache'
              /\ DOMAIN cache' = DOMAIN cache \ {g[p].arg}
              /\ \A b \in DOMAIN cache' : cache'[b] = cache[b]
              /\ g[p].arg \notin DOMAIN cache => cache' = cache
        /\ (g[p].pc = "cmake" /\ g'[p].pc = "done")
           => DOMAIN cache' = {}]_vars

\* invalidate has deleted an entry that was fresh, and the entry of the
\* other ID is still in the map
C23_Witness ==
    \E p \in Procs :
        /\ g[p].pc = "done" /\ g[p].op = "invalidate"
        /\ invalidated[g[p].arg] = "fresh"
        /\ g[p].arg \notin DOMAIN cache
        /\ \E b \in Ids \ {g[p].arg} : b \in DOMAIN cache

\* C24: NewVCloudProvider returns an error and no provider when no config is
\* provided, when CLUSTER_ID, CLUSTER_NAME, MGMT_URL or PROVIDER_TOKEN is
\* missing or empty in the [vCloud] section, or when CLUSTER_ID is not a
\* valid UUID; it returns a provider and no error when the four are present
\* and valid; and it returns a provider only then.
C24_Original ==
    \A p \in Procs :
        g[p].op = "NewVCloudProvider"
        => LET cfg == readConfig(g[p].config.text)
               rejected == /\ g[p].pc = "returned"
                           /\ g[p].perr # NoCfgErr /\ g[p].provider.isNil
               accepted == /\ g[p].pc = "returned"
                           /\ g[p].perr = NoCfgErr /\ ~g[p].provider.isNil
               present == /\ cfg.ClusterID # << >>
                          /\ cfg.ClusterName # << >>
                          /\ cfg.MgmtURL # << >>
                          /\ cfg.ProviderToken # << >>
               valid == uuidParse(cfg.ClusterID) /\ urlParse(cfg.MgmtURL)
           IN  /\ g[p].config.kind \in {"nil", "nilptr"} => rejected
               /\ (g[p].config.kind = "reader" /\ ~present) => rejected
               /\ (g[p].config.kind = "reader" /\ present
                      /\ ~uuidParse(cfg.ClusterID)) => rejected
               /\ (g[p].config.kind = "reader" /\ present /\ valid) => accepted
               /\ ~g[p].provider.isNil
                      => g[p].config.kind = "reader" /\ present /\ valid

\* C25: NewVCloudProvider rejects the config whose MGMT_URL is not-a-url, the
\* other three keys being present and valid: it returns an error that
\* contains "MGMT_URL must be a valid URL", and no provider.
C25_Original ==
    \A p \in Procs :
        LET cfg == readConfig(g[p].config.text)
        IN  ( /\ g[p].op = "NewVCloudProvider" /\ g[p].config.kind = "reader"
              /\ cfg.MgmtURL = NotAURL
              /\ uuidParse(cfg.ClusterID)
              /\ cfg.ClusterName # << >> /\ cfg.ProviderToken # << >> )
        => /\ g[p].pc = "returned"
           /\ g[p].perr.msg = "MGMT_URL must be a valid URL"
           /\ g[p].provider.isNil

\* a valid Kubernetes label value as the README describes it: no "=", at
\* most 63 characters, the first and the last alphanumeric
ValidLabelValue(v) ==
    LET IsAlnum(c) == IsLetter(c) \/ IsDigit(c) IN
    /\ \A k \in 1..Len(v) : v[k] # "="
    /\ Len(v) <= 63
    /\ v # << >> => IsAlnum(v[1]) /\ IsAlnum(v[Len(v)])

\* C26: the label values k8s.io.infra.vnetwork.dev/instance-type and
\* .../cluster-id that InstanceMetadata returns for a live instance are
\* valid Kubernetes label values.
C26_Original ==
    \A p \in Procs :
        ( /\ g[p].pc = "returned" /\ g[p].api = "InstanceMetadata"
          /\ g[p].res.err = NoErr )
        => /\ ValidLabelValue(g[p].rinfo.Labels.instanceType)
           /\ ValidLabelValue(g[p].rinfo.Labels.clusterID)

\* C27: the Nodes list of the request buildLoadBalancerRequest returns holds,
\* in node order, the first internal-IP address of each node that has one,
\* and nothing for the other nodes; its Ports list has one element per
\* service port, in order, named as the service port or, when that has no
\* name, port-<port number>.
C27_BuildRequest ==
    \A p \in Procs :
        (g[p].pc = "returned" /\ g[p].op = "buildLoadBalancerRequest")
        => LET nodes == g[p].lb.nodes
               ports == g[p].lb.service.Ports
               req == g[p].lb.req
               InternalAt(addrs) == {i \in 1..Len(addrs) : addrs[i].Type = "InternalIP"}
               withIP == {k \in 1..Len(nodes) : InternalAt(nodes[k].Addresses) # {}}
               first(k) == CHOOSE i \in InternalAt(nodes[k].Addresses) :
                               \A j \in InternalAt(nodes[k].Addresses) : i <= j
           IN  /\ Len(req.Nodes) = Cardinality(withIP)
               /\ \A k \in withIP :
                     req.Nodes[Cardinality({j \in withIP : j <= k})]
                        = nodes[k].Addresses[first(k)].Address
               /\ Len(req.Ports) = Len(ports)
               /\ \A k \in 1..Len(ports) :
                     /\ req.Ports[k].Port = ports[k].Port
                     /\ req.Ports[k].Name =
                           IF ports[k].Name # << >> THEN ports[k].Name
                           ELSE <<"p", "o", "r", "t", "-">> \o Itoa(ports[k].Port)

\* the request built for the test's service and a node with an external
\* address before its internal one, then a node with two internal addresses:
\* two addresses, and the second port named port-443
C27_Witness ==
    \E p \in Procs :
        /\ g[p].pc = "returned" /\ g[p].op = "buildLoadBalancerRequest"
        /\ Len(g[p].lb.nodes) = 2
        /\ Len(g[p].lb.nodes[1].Addresses) = 2
        /\ g[p].lb.nodes[1].Addresses[1].Type = "ExternalIP"
        /\ Len(g[p].lb.nodes[2].Addresses) = 2
        /\ g[p].lb.nodes[2].Addresses[2].Type = "InternalIP"
        /\ g[p].lb.req.Nodes = <<"10.0.1.101", "10.0.1.102">>
        /\ Len(g[p].lb.req.Ports) = 2
        /\ g[p].lb.req.Ports[1].Name = <<"h", "t", "t", "p">>
        /\ g[p].lb.service.Ports[2].Name = << >>
        /\ g[p].lb.req.Ports[2].Name = <<"p", "o", "r", "t", "-", "4", "4", "3">>

\* C28: EnsureLoadBalancerDeleted returns nil when the status Request ends
\* on is 200 and when it is 404, so that deleting again what is already
\* deleted succeeds; for any other final status, and for a transport
\* failure, it returns an error.
C28_DeleteIdempotent ==
    \A p \in Procs :
        (g[p].pc = "returned" /\ g[p].op = "EnsureLoadBalancerDeleted")
        => /\ g[p].rerr = NoErr
                <=> (g[p].resp.kind = "resp" /\ g[p].resp.status \in {200, 404})
           /\ g[p].resp.kind = "resp"
                => /\ g[p].tried[Len(g[p].tried)].status = g[p].resp.status
                   /\ g[p].resp.status >= 500 => g[p].nreq = maxRetries
           /\ g[p].resp.kind = "err" => g[p].nreq = maxRetries

\* a second EnsureLoadBalancerDeleted, after one that ended on a 200, has
\* ended on a 404 and returned nil
C28_Witness ==
    \E p \in Procs :
        /\ g[p].pc = "returned" /\ g[p].op = "EnsureLoadBalancerDeleted"
        /\ g[p].lb.prev = 200
        /\ g[p].resp.kind = "resp" /\ g[p].resp.status = 404
        /\ g[p].rerr = NoErr

\* the get of p found no entry it could serve
Missed(s) == ~(s.entry.exists /\ ~isExpired(s.entry))

\* C29: every get that misses makes its own fetch, whatever the other
\* goroutines do for the same ID; when the fetch succeeds it returns the
\* record of that fetch and stores it, so that right after its store the
\* entry of the ID is its own; of two callers that missed on the same ID and
\* stored, the entry in the map is that of the one that stored last.
C29_Stampede ==
    [][\A p \in Procs :
        /\ ( /\ g'[p].pc = "done" /\ g'[p].op = "get" /\ g[p].pc # "done"
             /\ Missed(g'[p]) )
           => /\ g'[p].nreq >= 1
              /\ g'[p].rerr = GetInstanceInfo(g[p].arg, g'[p].resp).err
              /\ g'[p].rerr = NoErr
                   => /\ g[p].pc = "store"
                      /\ g'[p].rinfo = GetInstanceInfo(g[p].arg, g'[p].resp).info
                      /\ g[p].arg \in DOMAIN cache'
                      /\ cache'[g[p].arg] = [info |-> g'[p].rinfo, age |-> 0,
                                             ttl |-> cacheTTL(g'[p].rinfo)]
        /\ \A q \in Procs \ {p} :
              ( /\ Done(p)' /\ Done(q)' /\ g'[p].arg = g'[q].arg
                /\ Missed(g'[p]) /\ Missed(g'[q])
                /\ g'[p].rerr = NoErr /\ g'[q].rerr = NoErr
                /\ mine'[p].set /\ mine'[q].set /\ mine'[p].id = g'[p].arg
                /\ mine'[q].id = g'[q].arg /\ mine'[p].over )
              => /\ ~mine'[q].over
                 /\ g'[q].arg \in DOMAIN cache'
                 /\ cache'[g'[q].arg].info = g'[q].rinfo
                 /\ cache'[g'[q].arg].age = mine'[q].age]_vars

\* two gets found the map without an entry for the same ID, each made one
\* request, one decoded a live and the other an absent instance, and the map
\* holds the record of the one that stored last
C29_Witness ==
    \E p, q \in Procs :
        /\ p # q /\ Done(p) /\ Done(q) /\ g[p].arg = g[q].arg
        /\ ~g[p].entry.exists /\ ~g[q].entry.exists
        /\ g[p].nreq = 1 /\ g[q].nreq = 1
        /\ g[p].rinfo.Exists /\ ~g[q].rinfo.Exists /\ ~g[q].rinfo.isNil
        /\ mine[p].set /\ mine[p].over /\ mine[q].set /\ ~mine[q].over
        /\ cache[g[q].arg].info = g[q].rinfo

\* what a step may do to the entry of id.  The step predicates:
\*   StoreStep: the step stores, for id, the record of a successful fetch of
\*     a get that had missed, as a whole new entry;
\*   TimeStep: the step is the passing of time, the entries are older and
\*     nothing else;
\*   RemoveStep: the step is the delete of invalidate(id), the make of
\*     clear(), or a store whose sweep finds the entry of id expired;
\*   SameEntry: the entry of id is the one it was, time apart;
\*   ErrorStep: a get returns a resolver error in this step.
\* overFresh tells whether a store may replace a fresh entry.
EntryStep(id, overFresh) ==
    LET a == EntryState(id)
        b == EntryState(id)'
        StoreStep ==
            \E p \in Procs :
                /\ g[p].pc = "store" /\ g[p].arg = id /\ g'[p].pc = "done"
                /\ Missed(g[p])
                /\ GetInstanceInfo(id, g[p].resp).err = NoErr
                /\ id \in DOMAIN cache'
                /\ cache'[id] = [info |-> GetInstanceInfo(id, g[p].resp).info, age |-> 0,
                                 ttl |-> cacheTTL(GetInstanceInfo(id, g[p].resp).info)]
        TimeStep ==
            /\ DOMAIN cache' = DOMAIN cache
            /\ \A k \in DOMAIN cache :
                  /\ cache'[k].info = cache[k].info /\ cache'[k].ttl = cache[k].ttl
                  /\ cache'[k].age >= cache[k].age
            /\ \A p \in Procs : g'[p].pc = g[p].pc
        RemoveStep ==
            \E p \in Procs :
                \/ g[p].pc = "idelete" /\ g[p].arg = id /\ g'[p].pc = "done"
                \/ g[p].pc = "cmake" /\ g'[p].pc = "done"
                \/ /\ g[p].pc = "store" /\ g'[p].pc = "done" /\ g[p].arg # id
                   /\ isExpired(cache[id])
        SameEntry ==
            /\ id \in DOMAIN cache /\ id \in DOMAIN cache'
            /\ cache'[id].info = cache[id].info /\ cache'[id].ttl = cache[id].ttl
            /\ cache'[id].age = cache[id].age \/ TimeStep
        ErrorStep ==
            \E p \in Procs :
                /\ g[p].op = "get" /\ g[p].pc = "attempt" /\ g'[p].pc = "done"
                /\ g'[p].rerr # NoErr
    IN  /\ (a = "absent" /\ b = "fresh") => StoreStep
        /\ a = "absent" => b # "stale"
        /\ (a = "fresh" /\ b = "stale") => TimeStep
        /\ (a = "stale" /\ b = "fresh") => StoreStep
        /\ (a # "absent" /\ b = "absent") => RemoveStep
        /\ (a = b /\ a # "absent")
              => SameEntry \/ (overFresh /\ a = "fresh" /\ StoreStep)
        /\ ErrorStep => cache' = cache

\* C30 as stated: for each ID, a step takes the entry from absent to fresh by
\* a successful resolve, from fresh to stale by time, from stale to fresh by
\* a successful resolve that replaces the whole entry, or to absent by
\* invalidate, clear or the sweep; any other step, a store over a fresh
\* entry among them, leaves the entry as it is; and a step that returns a
\* resolver error leaves the map as it is.
C30_Original == [][\A id \in Ids : EntryStep(id, FALSE)]_vars

\* C30: the same, with one more change: a store over a fresh entry, by a get
\* that had missed before that entry was stored, replaces the whole entry and
\* leaves it fresh.
C30_Amended == [][\A id \in Ids : EntryStep(id, TRUE)]_vars

\* an entry has gone from stale to fresh by the store of a get that found it
\* expired, and before that the entry of another goroutine's get for the
\* same ID had been replaced
C30_Witness ==
    \E p, q \in Procs :
        /\ p # q /\ Done(p) /\ g[p].entry.exists /\ isExpired(g[p].entry)
        /\ g[p].rerr = NoErr /\ g[p].nreq >= 1
        /\ EntryState(g[p].arg) = "fresh"
        /\ cache[g[p].arg].info = g[p].rinfo
        /\ mine[q].set /\ mine[q].id = g[p].arg /\ mine[q].over

\* C31: for every base URL, cluster ID and path, the URL Request asks for is
\* the base, the prefix /clusters/<clusterID> and the path, the prefix being
\* there exactly once: added when the base lacks it, not added again when
\* the base ends with it; and every attempt of the call asks for that URL.
C31_Original ==
    \A p \in Procs :
        g[p].op = "Request"
        => LET rq == g[p].rq
               prefix == <<"/", "c", "l", "u", "s", "t", "e", "r", "s", "/">> \o rq.clusterID
               places == {k \in 0..(Len(rq.url) - Len(prefix)) :
                            SubSeq(rq.url, k + 1, k + Len(prefix)) = prefix}
           IN  /\ ~Contains(rq.mgmtURL, prefix)
                     => rq.url = rq.mgmtURL \o prefix \o rq.path
               /\ HasSuffix(rq.mgmtURL, prefix) => rq.url = rq.mgmtURL \o rq.path
               /\ Cardinality(places) = 1
               /\ \A k \in 1..Len(rq.sent) : rq.sent[k].url = rq.url

\* C32: no goroutine holds the cache lock, shared or exclusive, while an HTTP
\* attempt or a backoff sleep of its call is in progress: the shared lock is
\* held only between RLock and the read of the map, the exclusive lock only
\* by a get that is storing, an invalidate or a clear; so when the other
\* goroutines are fetching, sleeping or between calls the lock is free, and
\* a hit, an invalidate or a store for any ID can take it.
C32_NoLockAcrossFetch ==
    /\ \A p \in Procs :
          /\ p \in readers <=> g[p].pc = "runlock"
          /\ writer = p <=> g[p].pc \in {"store", "idelete", "cmake"}
          /\ g[p].pc \in {"attempt", "sleep", "lock"} => p \notin readers /\ writer # p
    /\ \A q \in Procs :
          (\A p \in Procs \ {q} : g[p].pc \in {"idle", "attempt", "sleep", "lock", "done"})
          => writer \in {0, q} /\ readers \subseteq {q}

\* a get is in its second backoff sleep, and since its first attempt another
\* goroutine's get for the same ID has fetched and stored
C32_Witness ==
    \E p, q \in Procs :
        /\ p # q /\ g[p].op = "get" /\ g[p].pc = "sleep" /\ g[p].i = 1
        /\ Done(q) /\ g[q].arg = g[p].arg /\ g[q].nreq = 1 /\ g[q].rerr = NoErr
        /\ mine[q].set /\ mine[q].id = g[q].arg /\ mine[q].age = 0
        /\ writer = 0 /\ readers = {}

\* C33: once invalidate(id) has returned, no later get(id) returns a record
\* whose fetch had returned before the invalidate did: no get is served, as
\* a hit, the entry stored by a get that fetched before an invalidate of the
\* ID and stored after it.
C33_Original ==
    [][\A p, q \in Procs :
        ~ ( /\ g[p].op = "get" /\ g[p].pc = "runlock" /\ g'[p].pc = "done"
            /\ g[p].entry.exists
            /\ mine[q].set /\ mine[q].id = g[p].arg /\ ~mine[q].over
            /\ mine[q].pre
            /\ g'[p].rinfo = mine[q].data )]_vars

\* C34: whatever the attempts gave, Request returns either a response and a
\* nil error or a nil response and an error, never both and never neither;
\* the response it returns with a nil error is the last one received, and
\* its body has not been closed.
C34_ResponseXorError ==
    \A p \in Procs :
        (g[p].op = "Request" /\ g[p].pc \in {"requested", "returned"})
        => LET rq == g[p].rq
           IN  /\ (rq.resp # 0) # (rq.err # "")
               /\ rq.resp # 0 =>
                    /\ rq.resp = Len(rq.got)
                    /\ rq.got[rq.resp].byClient = 0 /\ rq.got[rq.resp].byRequest = 0
                    /\ g[p].tried[Len(g[p].tried)].kind = "resp"

\* Request has returned a nil response and the error of its third attempt,
\* for which Do gave both a response and an error
C34_Witness ==
    \E p \in Procs :
        /\ g[p].op = "Request" /\ g[p].pc = "requested" /\ g[p].nreq = maxRetries
        /\ g[p].rq.err = "redirect" /\ g[p].rq.resp = 0
        /\ Len(g[p].rq.got) >= 1
        /\ g[p].rq.got[Len(g[p].rq.got)].status = 302

\* C35: when Request retries a call that carries a body, every attempt
\* transmits the bytes the first attempt transmitted.
C35_Original ==
    \A p \in Procs :
        (g[p].op = "Request" /\ g[p].rq.hasBody)
        => \A k \in 1..Len(g[p].rq.sent) : g[p].rq.sent[k].body = g[p].rq.sent[1].body

\* C36: the body of every response received in a call is closed exactly
\* once.  No body is ever closed twice; Request closes the bodies of the
\* responses with a status >= 500 that it retries, and not the body of the
\* response it returns; while Request sleeps or tries again every body
\* received so far is closed; and when the caller has returned, on whichever
\* path, it has closed the body of the response Request returned, and every
\* body is closed.
C36_BodyClosedOnce ==
    \A p \in Procs :
        g[p].op = "Request"
        => LET rq == g[p].rq
               closes(k) == rq.got[k].byClient + rq.got[k].byRequest + rq.got[k].byCaller
               retried(k) == /\ rq.got[k].byClient = 0 /\ rq.got[k].status >= 500
                             /\ ~(g[p].pc \in {"requested", "returned"} /\ k = rq.resp)
           IN  /\ \A k \in 1..Len(rq.got) :
                     /\ closes(k) <= 1
                     /\ rq.got[k].byRequest = 1 <=> retried(k)
                     /\ rq.got[k].byCaller = 1 <=> (g[p].pc = "returned" /\ k = rq.resp)
                     /\ g[p].pc \in {"attempt", "sleep", "returned"} => closes(k) = 1
               /\ (g[p].pc = "requested" /\ rq.resp # 0) => closes(rq.resp) = 0

\* a caller has returned after three attempts that all got a status >= 500:
\* Request closed the first two bodies and the caller the third
C36_Witness ==
    \E p \in Procs :
        /\ g[p].op = "Request" /\ g[p].pc = "returned" /\ Len(g[p].rq.got) = maxRetries
        /\ g[p].rq.resp = maxRetries
        /\ \A k \in 1..maxRetries : g[p].rq.got[k].status >= 500
        /\ g[p].rq.got[1].byRequest = 1 /\ g[p].rq.got[2].byRequest = 1
        /\ g[p].rq.got[3].byRequest = 0 /\ g[p].rq.got[3].byCaller = 1

\* C37: under fair scheduling, every HTTP attempt returning, every call of
\* get, invalidate and clear returns: from wherever a goroutine stands in a
\* call, waiting for the lock included, it comes to the call's return.
C37_CallsReturn ==
    \A p \in Procs : (g[p].pc \notin {"idle", "done"}) ~> (g[p].pc = "done")

\* C37 happens: a get that has fetched waits for Lock while a clear holds it
C37_Witness ==
    \E p, q \in Procs :
        /\ g[p].op = "get" /\ g[p].pc = "lock"
        /\ g[q].op = "clear" /\ writer = q

====
